---- MODULE Spec2Model ----
(***************************************************************************)
(* Model of src/rate_limiter.py: the FIFO two-level rate limiter           *)
(* (RateLimiter.acquire / get_status) and the rate_limited decorator.      *)
(*                                                                         *)
(* Time is an integer count of hundredths of a second, the finest grain    *)
(* the code uses (the 0.01 s added to a backoff sleep).  Statements run in *)
(* zero time: the clock moves only while every call in progress is blocked *)
(* in my_event.wait or time.sleep, and a blocked call resumes exactly at   *)
(* its deadline.  Each call is one invocation of a rate_limited wrapper.   *)
(***************************************************************************)
EXTENDS Integers, Sequences, FiniteSets, TLC

\* ---------------------------------------------------------------- bounds
NumCalls == 3
MaxTime == 205

\* invocations of the server's tools
NumInvocations == 2
\* signals delivered to and health checks answered by the process
MaxEvents == 5
\* length of the strings given to parse_wayback_timestamp
MaxTsLen == 9
\* length of the snapshot lists given to apply_pick_filter
MaxSnapshots == 3

\* ------------------------------------------------------ program constants
\* window: float = 1.0 (seconds), in hundredths of a second
Window == 100
\* my_event.wait(timeout=min(0.1, remaining))
Poll == 10
\* sleep_time = min(wait_time + 0.01, remaining)
Eps == 1
\* self.config.get("max_wait_seconds", 120)
DefaultMaxWait == 12000

Calls == 1..NumCalls
Invocations == 1..NumInvocations
ToolNames == {"a", "x"}
None == 0

\* The instants at which a new call may arrive.
ArrivalInstants == {0, 100}

\* Configurations the limiter is constructed with (the parsed rate_limits.json).
Configs ==
    { [max_requests_per_second |-> 2, max_wait_seconds |-> 100, tools |-> <<>>],
      [max_requests_per_second |-> 10, tools |-> [n \in {"a"} |-> [max_requests_per_second |-> 1]]],
      [max_requests_per_second |-> 1, max_wait_seconds |-> 30, tools |-> [n \in {"x"} |-> <<>>]] }

\* ------------------------------------------------ the configuration source
\* config_path names no file
NoFile == [exists |-> FALSE]
\* a file that cannot be opened for reading
Unreadable == [exists |-> TRUE, readable |-> FALSE]
\* a file whose text is not JSON
NotJson == [exists |-> TRUE, readable |-> TRUE, json |-> FALSE]
\* a file holding the JSON object value
FileOf(value) == [exists |-> TRUE, readable |-> TRUE, json |-> TRUE, value |-> value]

\* a JSON member named k with one of the values, or no such member
Member(k, values) == {<<>>} \cup {[x \in {k} |-> v] : v \in values}

\* JSON objects in which any of the three members may be absent
JsonObjects ==
    { r @@ w @@ t :
        r \in Member("max_requests_per_second", {1, 10}),
        w \in Member("max_wait_seconds", {100}),
        t \in Member("tools", { <<>>,
                                [n \in {"a"} |-> [max_requests_per_second |-> 1]],
                                [n \in {"x"} |-> <<>>] }) }

\* The sources the running limiter is constructed from: a file holding one of
\* Configs.
Sources == {FileOf(c) : c \in Configs}

\* Every state of the source: missing, unreadable, malformed, or any JSON object.
AllSources == {NoFile, Unreadable, NotJson} \cup {FileOf(v) : v \in JsonObjects}

\* the operations tried on a newly constructed limiter
Ops == ToolNames \cup {"get_status"}

VARIABLES
    now,            \* time.time()
    config,         \* self.config
    global_ts,      \* self._global_timestamps
    tool_ts,        \* self._tool_timestamps (a missing key reads as the empty deque)
    lock,           \* holder of self._lock, or None
    queue,          \* self._queue: the calls whose (event, tool_name) entry is queued
    event,          \* my_event.is_set() of each call
    pc,             \* where each call is
    tool,           \* tool_name / func.__name__ of each call
    start_time,     \* start_time of each call
    deadline,       \* when the call's current wait or sleep ends
    end_time,       \* when the call left acquire (history)
    func_ran,       \* whether the wrapped function ran for the call
    enq_order,      \* the calls in the order they were appended to the queue (history)
    admitted,       \* <<call, timestamp>> of every _record_call, in order (history)
    source,         \* the file at config_path when the limiter is constructed
    built,          \* outcome of RateLimiter(config_path)
    outcome,        \* outcome of the first acquire / get_status on the new limiter
    qlock,          \* holder of self._queue_lock, or None
    lpc,            \* where each thread is, lock by lock
    inv,            \* each invocation of a server tool, through its decorators
    _shutting_down, \* app._shutting_down
    hlog,           \* the signals received and the health responses sent, in order (history)
    ts_arg,         \* the argument of parse_wayback_timestamp
    parsed,         \* its return value, or Null before the call
    req,            \* the arguments of a call of list_available_snapshots
    archive,        \* the captures of the URL that the Wayback Machine holds
    resp,           \* what the call queried and returned
    url_arg,        \* the argument of get_url_variations
    variations,     \* its return value, or Null before the call
    pick_arg,       \* the arguments of a call of apply_pick_filter
    picked          \* whether it has returned, and its return value

\* the variables of the construction of the limiter
load_vars == <<source, built, outcome>>

\* the variables that the operations of a constructed limiter leave alone
\* the variables of the lock-by-lock view of the limiter's operations
lock_vars == <<qlock, lpc>>

\* the variables of the tools' decorator stack
stack_vars == <<inv>>

\* the variables of the health endpoint
health_vars == <<_shutting_down, hlog>>

\* the variables of a call of parse_wayback_timestamp
parse_vars == <<ts_arg, parsed>>

\* the variables of a call of list_available_snapshots
snap_vars == <<req, archive, resp>>

\* the variables of a call of get_url_variations
url_vars == <<url_arg, variations>>

\* the variables of a call of apply_pick_filter
pick_vars == <<pick_arg, picked>>

aux_vars == <<load_vars, lock_vars, stack_vars, health_vars, parse_vars, snap_vars,
              url_vars, pick_vars>>

vars == <<now, config, global_ts, tool_ts, lock, queue, event, pc, tool,
          start_time, deadline, end_time, func_ran, enq_order, admitted, aux_vars>>

Min(S) == CHOOSE x \in S : \A y \in S : x <= y
Max(S) == CHOOSE x \in S : \A y \in S : x >= y
MinOf(a, b) == IF a <= b THEN a ELSE b

\* ------------------------------------------------------------ pure parts

\* (mutant) a tool without an override is limited to 1 per second
_get_tool_limit_default_one(cfg, tool_name) ==
    LET tools == IF "tools" \in DOMAIN cfg THEN cfg.tools ELSE <<>>
    IN  IF tool_name \in DOMAIN tools /\ "max_requests_per_second" \in DOMAIN tools[tool_name]
        THEN tools[tool_name].max_requests_per_second
        ELSE 1

\* (mutant) the per-tool override is ignored
_get_tool_limit_global(cfg, tool_name) == cfg.max_requests_per_second

\* _get_tool_limit
_get_tool_limit(cfg, tool_name) ==
    LET tools == IF "tools" \in DOMAIN cfg THEN cfg.tools ELSE <<>>
    IN  IF tool_name \in DOMAIN tools
        THEN IF "max_requests_per_second" \in DOMAIN tools[tool_name]
             THEN tools[tool_name].max_requests_per_second
             ELSE cfg.max_requests_per_second
        ELSE cfg.max_requests_per_second

\* max_wait = self.config.get("max_wait_seconds", 120)
max_wait(cfg) ==
    IF "max_wait_seconds" \in DOMAIN cfg THEN cfg.max_wait_seconds ELSE DefaultMaxWait

\* (mutant) built-in defaults with a global rate of 1
_load_config_rate_one(path) ==
    IF path.exists
    THEN IF ~path.readable THEN [raised |-> "PermissionError"]
         ELSE IF ~path.json THEN [raised |-> "JSONDecodeError"]
         ELSE path.value
    ELSE [max_requests_per_second |-> 1, max_wait_seconds |-> 12000, tools |-> <<>>]

\* _load_config: json.load(f) of the file if the path exists (open and json.load
\* raise on a file that cannot be read or parsed), else the built-in defaults
_load_config(path) ==
    IF path.exists
    THEN IF ~path.readable THEN [raised |-> "PermissionError"]
         ELSE IF ~path.json THEN [raised |-> "JSONDecodeError"]
         ELSE path.value
    ELSE [max_requests_per_second |-> 10, max_wait_seconds |-> 12000, tools |-> <<>>]

\* the call raised instead of returning a value
Raised(r) == "raised" \in DOMAIN r

\* _clean_old_timestamps: pop from the left while the first entry is older than
\* the window
RECURSIVE _clean_old_timestamps(_, _)
_clean_old_timestamps(timestamps, t) ==
    IF timestamps # <<>> /\ Head(timestamps) < t - Window
    THEN _clean_old_timestamps(Tail(timestamps), t)
    ELSE timestamps

\* the deque when _clean_old_timestamps is left by an exception: between two
\* passes of its loop any number of the expired entries has been popped
partly_cleaned(timestamps, t) ==
    LET n == Len(timestamps) - Len(_clean_old_timestamps(timestamps, t))
    IN  {SubSeq(timestamps, k + 1, Len(timestamps)) : k \in 0..n}

\* (mutant) the limits compared with > instead of >=
wait_times_off_by_one(cfg, g, ts, tool_name, t) ==
    (IF Len(g) > cfg.max_requests_per_second THEN {Head(g) + Window - t} ELSE {})
    \cup
    (IF Len(ts) > _get_tool_limit(cfg, tool_name) THEN {Head(ts) + Window - t} ELSE {})

\* the wait_times list of _calculate_wait_time, on the cleaned deques
wait_times(cfg, g, ts, tool_name, t) ==
    (IF Len(g) >= cfg.max_requests_per_second THEN {Head(g) + Window - t} ELSE {})
    \cup
    (IF Len(ts) >= _get_tool_limit(cfg, tool_name) THEN {Head(ts) + Window - t} ELSE {})

\* _calculate_wait_time: its return value (the deques are cleaned by the caller
\* action with the same operator)
_calculate_wait_time(cfg, g, ts, tool_name, t) ==
    LET cg == _clean_old_timestamps(g, t)
        ct == _clean_old_timestamps(ts, t)
        w  == wait_times(cfg, cg, ct, tool_name, t)
    IN  IF w # {} THEN Max(w) ELSE 0

\* remaining = max_wait - elapsed
remaining(cfg, started, t) == max_wait(cfg) - (t - started)

\* (mutant) the wait for the head of the queue not capped by the time remaining
wait_timeout_uncapped(rem) == Poll

\* my_event.wait(timeout=min(0.1, remaining))
wait_timeout(rem) == MinOf(Poll, rem)

\* sleep_time = min(wait_time + 0.01, remaining)
sleep_time(w, rem) == MinOf(w + Eps, rem)

\* (mutant) the event of the last entry of the queue is set
_notify_next_last(q, ev) ==
    IF q # <<>> THEN [ev EXCEPT ![q[Len(q)]] = TRUE] ELSE ev

\* _notify_next: the events after setting the event of the head, if any
_notify_next(q, ev) ==
    IF q # <<>> THEN [ev EXCEPT ![Head(q)] = TRUE] ELSE ev

\* (mutant) the head of the queue is popped, whoever it is
without_popleft(q, c) == IF q # <<>> THEN Tail(q) ELSE q

\* deque((e, t) for e, t in self._queue if e is not my_event)
without(q, c) == SelectSeq(q, LAMBDA e : e # c)

\* get_status: the snapshot it returns in the current state
get_status ==
    [ global_calls_last_second |-> Len(_clean_old_timestamps(global_ts, now)),
      global_limit |-> config.max_requests_per_second,
      queue_depth |-> Len(queue),
      tool_calls |-> [n \in {m \in ToolNames : tool_ts[m] # <<>>} |-> Len(tool_ts[n])] ]

\* ------------------------------------------------------------- strings
\* A str is the sequence of its characters; None is a value that is no str.
Null == <<"None">>

\* if s:  (None and the empty string are false)
Truthy(s) == s # Null /\ s # <<>>

\* all strings over the characters of length at most n
RECURSIVE Strings(_, _)
Strings(chars, n) ==
    IF n = 0 THEN {<<>>}
    ELSE LET shorter == Strings(chars, n - 1)
         IN  shorter \cup {Append(s, ch) : s \in {x \in shorter : Len(x) = n - 1}, ch \in chars}

\* (mutant) the length test with > instead of >=
parse_wayback_timestamp_gt(timestamp) ==
    IF Len(timestamp) > 8
    THEN SubSeq(timestamp, 1, 4) \o <<"-">> \o SubSeq(timestamp, 5, 6) \o <<"-">>
         \o SubSeq(timestamp, 7, 8)
    ELSE timestamp

\* parse_wayback_timestamp: f"{timestamp[:4]}-{timestamp[4:6]}-{timestamp[6:8]}"
\* if len(timestamp) >= 8, else timestamp
parse_wayback_timestamp(timestamp) ==
    IF Len(timestamp) >= 8
    THEN SubSeq(timestamp, 1, 4) \o <<"-">> \o SubSeq(timestamp, 5, 6) \o <<"-">>
         \o SubSeq(timestamp, 7, 8)
    ELSE timestamp

\* ----------------------------------------------------- dates as strings
Digits == <<"0", "1", "2", "3", "4", "5", "6", "7", "8", "9">>
IsDigit(ch) == \E i \in DOMAIN Digits : Digits[i] = ch
DigitVal(ch) == (CHOOSE i \in DOMAIN Digits : Digits[i] = ch) - 1
AllDigits(s) == \A i \in DOMAIN s : IsDigit(s[i])

\* ord(ch) of the characters of a date: " " and "-" sort before the digits
Ord(ch) == IF ch = " " THEN 32 ELSE IF ch = "-" THEN 45 ELSE 48 + DigitVal(ch)

\* int(s) of a string of digits
RECURSIVE IntOf(_)
IntOf(s) ==
    IF s = <<>> THEN 0
    ELSE 10 * IntOf(SubSeq(s, 1, Len(s) - 1)) + DigitVal(s[Len(s)])

\* the decimal digits of n, zero-padded to width w; f"{year}" for a 4-digit year
RECURSIVE Pad(_, _)
Pad(n, w) ==
    IF w = 0 THEN <<>> ELSE Append(Pad(n \div 10, w - 1), Digits[(n % 10) + 1])

\* "YYYY-MM-DD", "YYYY-MM" and "YYYYMMDDhhmmss" (noon) written out
Iso(y, mo, d) == Pad(y, 4) \o <<"-">> \o Pad(mo, 2) \o <<"-">> \o Pad(d, 2)
YearMonth(y, mo) == Pad(y, 4) \o <<"-">> \o Pad(mo, 2)
Capture(y, mo, d) == Pad(y, 4) \o Pad(mo, 2) \o Pad(d, 2) \o <<"1", "2", "0", "0", "0", "0">>

\* a < b on str: the first differing character decides; a proper prefix is smaller
StrLess(a, b) ==
    LET n == MinOf(Len(a), Len(b))
        diff == {i \in 1..n : a[i] # b[i]}
    IN  IF diff = {} THEN Len(a) < Len(b)
        ELSE Ord(a[Min(diff)]) < Ord(b[Min(diff)])

\* min(a, b) on str
str_min(a, b) == IF StrLess(b, a) THEN b ELSE a

\* s.replace("-", "")
replace_dash(s) == SelectSeq(s, LAMBDA ch : ch # "-")

IsLeap(y) == (y % 4 = 0 /\ y % 100 # 0) \/ y % 400 = 0
DaysIn(y, mo) ==
    IF mo = 2 THEN (IF IsLeap(y) THEN 29 ELSE 28)
    ELSE IF mo \in {4, 6, 9, 11} THEN 30 ELSE 31

\* the text the directive %m takes: 1[0-2], 0[1-9] or [1-9]
IsMonthField(f) ==
    \/ Len(f) = 2 /\ f[1] = "1" /\ f[2] \in {"0", "1", "2"}
    \/ Len(f) = 2 /\ f[1] = "0" /\ IsDigit(f[2]) /\ f[2] # "0"
    \/ Len(f) = 1 /\ IsDigit(f[1]) /\ f[1] # "0"

\* the text the directive %d takes: 3[0-1], [1-2]\d, 0[1-9], [1-9] or a blank
\* and [1-9]
IsDayField(f) ==
    \/ Len(f) = 2 /\ f[1] = "3" /\ f[2] \in {"0", "1"}
    \/ Len(f) = 2 /\ f[1] \in {"1", "2"} /\ IsDigit(f[2])
    \/ Len(f) = 2 /\ f[1] \in {"0", " "} /\ IsDigit(f[2]) /\ f[2] # "0"
    \/ Len(f) = 1 /\ IsDigit(f[1]) /\ f[1] # "0"

\* int() of a field: a leading blank is skipped
field_int(f) == IntOf(SelectSeq(f, IsDigit))

\* datetime(year, month, day): ValueError for year 0 and for a day the month
\* does not have
date_of(y, mo, d) == IF y >= 1 /\ d <= DaysIn(y, mo) THEN <<y, mo, d>> ELSE <<>>

\* datetime.strptime(s, "%Y-%m-%d"): the date <<year, month, day>>, or ValueError.
\* Four digits, "-", the month field up to the next "-", and the day field,
\* which must be the rest of the string.
ValueError == <<>>
strptime(s) ==
    LET dashes == {i \in 6..Len(s) : s[i] = "-"}
    IN  IF /\ Len(s) >= 5
           /\ AllDigits(SubSeq(s, 1, 4))
           /\ s[5] = "-"
           /\ dashes # {}
           /\ IsMonthField(SubSeq(s, 6, Min(dashes) - 1))
           /\ IsDayField(SubSeq(s, Min(dashes) + 1, Len(s)))
        THEN date_of(IntOf(SubSeq(s, 1, 4)),
                     field_int(SubSeq(s, 6, Min(dashes) - 1)),
                     field_int(SubSeq(s, Min(dashes) + 1, Len(s))))
        ELSE ValueError

\* a < b on datetime
DateLess(a, b) ==
    \/ a[1] < b[1]
    \/ a[1] = b[1] /\ a[2] < b[2]
    \/ a[1] = b[1] /\ a[2] = b[2] /\ a[3] < b[3]

\* date.toordinal(): the days from 0001-01-01
RECURSIVE DaysBeforeMonth(_, _)
DaysBeforeMonth(y, mo) ==
    IF mo = 1 THEN 0 ELSE DaysBeforeMonth(y, mo - 1) + DaysIn(y, mo - 1)
Ordinal(d) ==
    365 * (d[1] - 1) + ((d[1] - 1) \div 4) - ((d[1] - 1) \div 100) + ((d[1] - 1) \div 400)
    + DaysBeforeMonth(d[1], d[2]) + d[3]
\* (mutant) the signed difference taken for the distance
Abs_signed(n) == n

Abs(n) == IF n < 0 THEN 0 - n ELSE n

\* (mutant) the whole sequence instead of its first n elements
Prefix_whole(s, n) == s

\* s[:n]
Prefix(s, n) == SubSeq(s, 1, MinOf(Len(s), n))

\* sorted(set(years))
RECURSIVE SortAsc(_)
SortAsc(S) == IF S = {} THEN <<>> ELSE <<Min(S)>> \o SortAsc(S \ {Min(S)})

\* --------------------------------------------------- the Wayback CDX API
\* The archive answers a query with the captures inside [from, to], newest
\* first ("sort": "reverse"), at most "limit" of them.  A bound of fewer than 14
\* digits stands for the start ("from") or the end ("to") of the period it
\* names; a missing bound does not restrict.
LowerPad(d) == d \o SubSeq(<<"0", "0", "0", "0", "0", "1", "0", "1", "0", "0", "0", "0", "0", "0">>,
                           Len(d) + 1, 14)
UpperPad(d) == d \o SubSeq(<<"9", "9", "9", "9", "1", "2", "3", "1", "2", "3", "5", "9", "5", "9">>,
                           Len(d) + 1, 14)

RECURSIVE SortDesc(_)
SortDesc(S) ==
    IF S = {} THEN <<>>
    ELSE LET top == CHOOSE x \in S : \A y \in S : ~StrLess(x, y)
         IN  <<top>> \o SortDesc(S \ {top})

cdx(captures, from, to, limit) ==
    Prefix(SortDesc({c \in captures : ~StrLess(c, LowerPad(from)) /\ ~StrLess(UpperPad(to), c)}),
           limit)

\* ------------------------------------------------ list_available_snapshots
\* limit: default 20, capped to 1..50
DefaultLimit == 20
capped_limit(limit) == MinOf(IF limit < 1 THEN 1 ELSE limit, 50)

\* apply_pick_filter
apply_pick_filter(snapshots, pick, target_date) ==
    IF snapshots = <<>> \/ pick = "" THEN snapshots
    ELSE IF pick = "closest_to_end" THEN Prefix(snapshots, 1)
    ELSE IF pick = "closest_to_start" THEN SubSeq(snapshots, Len(snapshots), Len(snapshots))
    ELSE IF pick = "closest_to_date" /\ Truthy(target_date)
    THEN IF \/ strptime(target_date) = ValueError
            \/ \E k \in DOMAIN snapshots : strptime(snapshots[k].date) = ValueError
         THEN Prefix(snapshots, 1)
         ELSE LET dist(k) == Abs(Ordinal(strptime(snapshots[k].date))
                                 - Ordinal(strptime(target_date)))
                  best == Min({k \in DOMAIN snapshots :
                                 \A j \in DOMAIN snapshots : dist(k) <= dist(j)})
              IN  <<snapshots[best]>>
    ELSE IF pick = "monthly"
    THEN LET keep == {k \in DOMAIN snapshots :
                        \A j \in 1..(k - 1) :
                            Prefix(snapshots[j].date, 7) # Prefix(snapshots[k].date, 7)}
         IN  [i \in 1..Cardinality(keep) |-> snapshots[SortAsc(keep)[i]]]
    ELSE IF pick = "yearly"
    THEN LET keep == {k \in DOMAIN snapshots :
                        \A j \in 1..(k - 1) :
                            Prefix(snapshots[j].date, 4) # Prefix(snapshots[k].date, 4)}
         IN  [i \in 1..Cardinality(keep) |-> snapshots[SortAsc(keep)[i]]]
    ELSE snapshots

\* the loop over the rows of a response: a row dated after the cutoff is
\* skipped; a row whose date does not parse is kept
kept_rows(rows, cutoff_dt) ==
    SelectSeq(rows, LAMBDA t :
        ~(/\ cutoff_dt # ValueError
          /\ strptime(parse_wayback_timestamp(t)) # ValueError
          /\ DateLess(cutoff_dt, strptime(parse_wayback_timestamp(t)))))

to_snapshots(rows) ==
    [k \in DOMAIN rows |-> [date |-> parse_wayback_timestamp(rows[k]), timestamp |-> rows[k]]]

\* cutoff_dt: the parsed cutoff_date, or None (here ValueError) when it is
\* missing or does not parse
cutoff_dt_of(cutoff_date) ==
    IF Truthy(cutoff_date) THEN strptime(cutoff_date) ELSE ValueError

\* years mode: the years not after the cutoff year, in ascending order
years_queried(years, cutoff_dt) ==
    SortAsc({years[k] : k \in DOMAIN years} \ {y \in {years[k] : k \in DOMAIN years} :
                                                  cutoff_dt # ValueError /\ y > cutoff_dt[1]})

\* years mode: the query of one year; year_end is capped in the cutoff year
year_query(year, cutoff_date, cutoff_dt) ==
    [ from |-> replace_dash(Pad(year, 4) \o <<"-", "0", "1", "-", "0", "1">>),
      to |-> replace_dash(IF cutoff_dt # ValueError /\ year = cutoff_dt[1]
                          THEN cutoff_date
                          ELSE Pad(year, 4) \o <<"-", "1", "2", "-", "3", "1">>) ]

\* range mode: effective_end_date
effective_end_date(end_date, cutoff_date) ==
    IF Truthy(cutoff_date)
    THEN IF end_date = Null THEN cutoff_date ELSE str_min(end_date, cutoff_date)
    ELSE end_date

\* range mode: effective_target_date
effective_target_date(target_date, cutoff_date) ==
    IF Truthy(target_date) /\ Truthy(cutoff_date) /\ StrLess(cutoff_date, target_date)
    THEN cutoff_date
    ELSE target_date

\* the query of get_domain_diagnostics, sent when no snapshot was found
diagnostics_query(cutoff_date) ==
    [ from |-> <<>>, to |-> IF Truthy(cutoff_date) THEN replace_dash(cutoff_date) ELSE <<>> ]

\* the snapshots of the queries of years mode, year after year
RECURSIVE year_snapshots(_, _, _, _)
year_snapshots(qs, captures, cutoff_dt, k) ==
    IF k > Len(qs) THEN <<>>
    ELSE to_snapshots(kept_rows(cdx(captures, qs[k].from, qs[k].to, 20), cutoff_dt))
         \o year_snapshots(qs, captures, cutoff_dt, k + 1)

NoResponse == [done |-> FALSE]

\* list_available_snapshots: the queries sent to the archive and the snapshots
\* returned, for the first URL variation (start_date is not given)
list_available_snapshots(r, captures, limit) ==
    LET cutoff_dt == cutoff_dt_of(r.cutoff_date)
        lim == capped_limit(limit)
    IN  IF r.years # <<>>
        THEN LET yq == years_queried(r.years, cutoff_dt)
                 qs == [k \in DOMAIN yq |-> year_query(yq[k], r.cutoff_date, cutoff_dt)]
                 all == year_snapshots(qs, captures, cutoff_dt, 1)
             IN  IF all = <<>>
                 THEN [done |-> TRUE, queries |-> Append(qs, diagnostics_query(r.cutoff_date)),
                       snapshots |-> <<>>, end |-> Null]
                 ELSE [done |-> TRUE, queries |-> qs,
                       snapshots |-> Prefix(apply_pick_filter(all, r.pick, r.target_date), lim),
                       end |-> Null]
        ELSE LET eff_end == effective_end_date(r.end_date, r.cutoff_date)
                 q == [from |-> <<>>,
                       to |-> IF Truthy(eff_end) THEN replace_dash(eff_end) ELSE <<>>]
                 data == cdx(captures, q.from, q.to, lim * 2)
             IN  IF data = <<>>
                 THEN [done |-> TRUE, queries |-> <<q, diagnostics_query(eff_end)>>,
                       snapshots |-> <<>>, end |-> eff_end]
                 ELSE [done |-> TRUE, queries |-> <<q>>,
                       snapshots |->
                           Prefix(apply_pick_filter(
                                      to_snapshots(kept_rows(Prefix(data, lim * 2 - 1), cutoff_dt)),
                                      r.pick, effective_target_date(r.target_date, r.cutoff_date)),
                                  lim),
                       end |-> eff_end]

\* ------------------------------------------------------ urllib.parse
\* str.find(ch, start): the first position of ch at or after start (counted
\* from 1), or 0
Find(s, ch, start) ==
    LET hits == {i \in start..Len(s) : s[i] = ch}
    IN  IF hits = {} THEN 0 ELSE Min(hits)

\* str.rfind(ch): the last position of ch, or 0
RFind(s, ch) ==
    LET hits == {i \in DOMAIN s : s[i] = ch}
    IN  IF hits = {} THEN 0 ELSE Max(hits)

\* s.startswith(p), s.endswith(p)
StartsWith(s, p) == Len(s) >= Len(p) /\ SubSeq(s, 1, Len(p)) = p
EndsWith(s, p) == Len(s) >= Len(p) /\ SubSeq(s, Len(s) - Len(p) + 1, Len(s)) = p

LowerLetters == <<"a", "b", "c", "d", "e", "f", "g", "h", "i", "j", "k", "l", "m", "n", "o", "p", "q", "r", "s", "t", "u", "v", "w", "x", "y", "z">>
UpperLetters == <<"A", "B", "C", "D", "E", "F", "G", "H", "I", "J", "K", "L", "M", "N", "O", "P", "Q", "R", "S", "T", "U", "V", "W", "X", "Y", "Z">>
IsAlpha(ch) == \E i \in 1..26 : LowerLetters[i] = ch \/ UpperLetters[i] = ch
\* scheme_chars: the letters, the digits and "+-."
IsSchemeChar(ch) == IsAlpha(ch) \/ IsDigit(ch) \/ ch \in {"+", "-", "."}

\* str.lower()
LowerChar(ch) ==
    IF \E i \in 1..26 : UpperLetters[i] = ch
    THEN LowerLetters[CHOOSE i \in 1..26 : UpperLetters[i] = ch]
    ELSE ch
Lower(s) == [i \in DOMAIN s |-> LowerChar(s[i])]

\* the entries of uses_params and of uses_netloc that the URLs tried can have
\* as a scheme
uses_params == {<<>>, <<"f", "t", "p">>, <<"h", "t", "t", "p">>, <<"h", "t", "t", "p", "s">>}
uses_netloc == {<<>>, <<"f", "t", "p">>, <<"h", "t", "t", "p">>, <<"h", "t", "t", "p", "s">>}

\* _splitnetloc(url, 2): the position of the first of "/?#" after the two
\* slashes, or one past the end
netloc_end(url) ==
    LET found == {Find(url, c, 3) : c \in {"/", "?", "#"}} \ {0}
    IN  IF found = {} THEN Len(url) + 1 ELSE Min(found)

\* url.split(sep, 1) when sep is in url, at position `at`; the url whole and an
\* empty tail when it is not (at = 0)
split_once(url, at) ==
    IF at > 0 THEN [head |-> SubSeq(url, 1, at - 1), tail |-> SubSeq(url, at + 1, Len(url))]
    ELSE [head |-> url, tail |-> <<>>]

\* urlsplit, the scheme: i is url.find(":"); the text before it is taken off,
\* lowered, when it starts with a letter and holds scheme characters only
split_scheme(url, i) ==
    IF i > 1 /\ IsAlpha(url[1]) /\ \A k \in 1..(i - 1) : IsSchemeChar(url[k])
    THEN [scheme |-> Lower(SubSeq(url, 1, i - 1)), url |-> SubSeq(url, i + 1, Len(url))]
    ELSE [scheme |-> <<>>, url |-> url]

\* urlsplit, the netloc: taken off up to e = netloc_end(url) when the url starts
\* with "//"
split_netloc(url, e) ==
    IF StartsWith(url, <<"/", "/">>)
    THEN [netloc |-> SubSeq(url, 3, e - 1), url |-> SubSeq(url, e, Len(url))]
    ELSE [netloc |-> <<>>, url |-> url]

\* urlsplit, the query: f is the rest split at its first "#"
split_query(scheme, netloc, f) ==
    LET q == split_once(f.head, Find(f.head, "?", 1))
    IN  [scheme |-> scheme, netloc |-> netloc, path |-> q.head, query |-> q.tail,
         fragment |-> f.tail]

\* urlsplit, the fragment: n is the netloc and what follows it
split_fragment(scheme, n) ==
    split_query(scheme, n.netloc, split_once(n.url, Find(n.url, "#", 1)))

\* urlsplit, after the scheme: s is the scheme and what follows it
split_after_scheme(s) == split_fragment(s.scheme, split_netloc(s.url, netloc_end(s.url)))

\* urlsplit: scheme, netloc, path, query and fragment (the URLs tried hold no
\* blank, control character or bracket)
urlsplit(url) == split_after_scheme(split_scheme(url, Find(url, ":", 1)))

\* _splitparams: the position of the ";" that starts the parameters of the last
\* path segment, or 0 when the path is left whole
params_at(path) ==
    IF RFind(path, "/") > 0 THEN Find(path, ";", RFind(path, "/")) ELSE Find(path, ";", 1)

\* urlparse, the parameters: split off the path of s at i = params_at(s.path)
\* when the scheme uses parameters and the path holds a ";"
split_params(s) ==
    LET i == params_at(s.path)
    IN
    IF s.scheme \in uses_params /\ Find(s.path, ";", 1) > 0 /\ i > 0
    THEN [scheme |-> s.scheme, netloc |-> s.netloc, path |-> SubSeq(s.path, 1, i - 1),
          params |-> SubSeq(s.path, i + 1, Len(s.path)), query |-> s.query,
          fragment |-> s.fragment]
    ELSE [scheme |-> s.scheme, netloc |-> s.netloc, path |-> s.path, params |-> <<>>,
          query |-> s.query, fragment |-> s.fragment]

\* urlparse: urlsplit, then the parameters are split off the path
urlparse(url) == split_params(urlsplit(url))

\* urlunsplit
urlunsplit(scheme, netloc, path, query, fragment) ==
    LET with_netloc ==
            IF \/ netloc # <<>>
               \/ (scheme # <<>> /\ scheme \in uses_netloc /\ ~StartsWith(path, <<"/", "/">>))
            THEN <<"/", "/">> \o netloc
                 \o (IF path # <<>> /\ path[1] # "/" THEN <<"/">> \o path ELSE path)
            ELSE path
        with_scheme == IF scheme # <<>> THEN scheme \o <<":">> \o with_netloc ELSE with_netloc
        with_query == IF query # <<>> THEN with_scheme \o <<"?">> \o query ELSE with_scheme
    IN  IF fragment # <<>> THEN with_query \o <<"#">> \o fragment ELSE with_query

\* urlunparse
urlunparse(p) ==
    urlunsplit(p.scheme, p.netloc,
               IF p.params # <<>> THEN p.path \o <<";">> \o p.params ELSE p.path,
               p.query, p.fragment)

\* ------------------------------------------------------ get_url_variations
\* alt_host: the host without its leading "www.", or with "www." put before it
alt_host(host) ==
    IF StartsWith(host, <<"w", "w", "w", ".">>) THEN SubSeq(host, 5, Len(host))
    ELSE <<"w", "w", "w", ".">> \o host

\* urlunparse(parsed_url._replace(netloc=alt_host))
alt_of(parsed_url) == urlunparse([parsed_url EXCEPT !.netloc = alt_host(parsed_url.netloc)])

\* alt_url: the URL rebuilt with "www." removed from or put before the netloc
alt_url(url) == alt_of(urlparse(url))

\* .endswith((".html", ".htm", ".php", ".asp", ".aspx", ".jsp"))
PageExtensions == {<<".", "h", "t", "m", "l">>, <<".", "h", "t", "m">>, <<".", "p", "h", "p">>, <<".", "a", "s", "p">>, <<".", "a", "s", "p", "x">>, <<".", "j", "s", "p">>}
\* for suffix in [".html", ".htm", "/"]
Suffixes == <<<<".", "h", "t", "m", "l">>, <<".", "h", "t", "m">>, <<"/">>>>

\* x in list
InList(list, x) == \E k \in DOMAIN list : list[k] = x

\* if variant not in variations: variations.append(variant)
AppendNew(list, x) == IF InList(list, x) THEN list ELSE Append(list, x)

\* the loops over base_variations and the suffixes
path_variations(base_variations) ==
    LET variants == [k \in 1..(Len(base_variations) * Len(Suffixes)) |->
                        base_variations[((k - 1) \div Len(Suffixes)) + 1]
                        \o Suffixes[((k - 1) % Len(Suffixes)) + 1]]
        add[k \in 0..Len(variants)] ==
            IF k = 0 THEN base_variations ELSE AppendNew(add[k - 1], variants[k])
    IN  add[Len(variants)]

\* the variations of url when its host variant is alt
variations_with(url, alt) ==
    IF Find(url, "?", 1) > 0 \/ EndsWith(url, <<"/">>) THEN
        IF alt # url THEN <<url, alt>> ELSE <<url>>
    ELSE IF \E e \in PageExtensions : EndsWith(url, e) THEN
        IF alt # url THEN <<url, alt>> ELSE <<url>>
    ELSE path_variations(IF alt # url THEN <<url, alt>> ELSE <<url>>)

\* get_url_variations(url)  (include_host_variants is left at True)
get_url_variations(url) == variations_with(url, alt_url(url))

\* -------------------------------------------------- the server's tools
\* the decorators between @mcp.tool and each tool function, outermost first
Tools == {"get_archived_snapshot", "list_available_snapshots", "search_site_archives"}

\* (mutant) the two decorators of list_available_snapshots in the other order
Decorators_swapped ==
    [t \in Tools |-> IF t = "list_available_snapshots"
                     THEN <<"notify_on_error", "rate_limited">>
                     ELSE <<"rate_limited", "notify_on_error">>]

\* @rate_limited(_limiter) above @notify_on_error above async def <tool>
Decorators == [t \in Tools |-> <<"rate_limited", "notify_on_error">>]

\* an invocation that has not started
NotInvoked ==
    [tool |-> "none", st |-> "idle", depth |-> 0, exc |-> "none", log |-> <<>>,
     result |-> "none"]

\* except Exception: catches RateLimitTimeout and the errors of the body, not an
\* exception that only derives from BaseException (CancelledError, SystemExit)
caught(exc) == exc \in {"RateLimitTimeout", "Exception"}

\* (mutant) a notification whose own failure propagates
send_slack_error_raises(post_outcome) ==
    IF post_outcome = "ok" THEN "returned" ELSE "raised"

\* send_slack_error: one httpx.post inside try / except Exception: pass
send_slack_error(post_outcome) == "returned"

\* ------------------------------------------------------------------ init

\* the limiter's windows, queue and calls right after construction
Fresh ==
    /\ now = 0
    /\ global_ts = <<>>
    /\ tool_ts = [n \in ToolNames |-> <<>>]
    /\ lock = None
    /\ queue = <<>>
    /\ event = [c \in Calls |-> FALSE]
    /\ pc = [c \in Calls |-> "idle"]
    /\ tool = [c \in Calls |-> "x"]
    /\ start_time = [c \in Calls |-> 0]
    /\ deadline = [c \in Calls |-> 0]
    /\ end_time = [c \in Calls |-> 0]
    /\ func_ran = [c \in Calls |-> FALSE]
    /\ enq_order = <<>>
    /\ admitted = <<>>
    /\ qlock = None
    /\ lpc = [c \in Calls |-> "idle"]
    /\ inv = [i \in Invocations |-> NotInvoked]
    /\ _shutting_down = FALSE
    /\ hlog = <<>>

\* no helper of the server has been called
NoHelperCall ==
    /\ url_arg = <<>>
    /\ variations = Null
    /\ pick_arg = [snapshots |-> <<>>, pick |-> "", target_date |-> Null]
    /\ picked = [done |-> FALSE]

NoCall ==
    /\ ts_arg = <<>>
    /\ parsed = Null
    /\ NoHelperCall

\* no tool has been called
NoRequest ==
    /\ req = [cutoff_date |-> Null, end_date |-> Null, years |-> <<>>,
              target_date |-> Null, pick |-> ""]
    /\ archive = {}
    /\ resp = NoResponse

\* _limiter = RateLimiter(): the limiter constructed from its source
Constructed ==
    /\ source \in Sources
    /\ config = _load_config(source)
    /\ built = "yes"
    /\ outcome = [op \in Ops |-> "not_called"]

Init ==
    /\ Constructed
    /\ Fresh
    /\ NoCall
    /\ NoRequest

\* --------------------------------------------------------------- actions

\* (mutant) a wrapper that swallows the exception of acquire and calls func anyway
wrapper_swallows(acquire_outcome) == TRUE

\* wrapper (lines 232-234): func runs if and only if limiter.acquire returned;
\* an exception of acquire leaves the wrapper before func is called
wrapper_calls_func(acquire_outcome) == acquire_outcome = "returned"

\* top of the while loop (lines 151-159): the timeout check, then my_event.wait
\* starts; the call's next position and the end of its wait
loop_pc(rem) == IF rem <= 0 THEN "cleanup" ELSE "wait"
loop_deadline(rem, t) == IF rem <= 0 THEN 0 ELSE t + wait_timeout(rem)

\* the calls are numbered in the order in which they are made: c is the next
\* call
NextCall(c) == pc[c] = "idle" /\ \A d \in Calls : d < c => pc[d] # "idle"

\* wrapper calls limiter.acquire(func.__name__); acquire reads start_time, creates
\* its event, joins the queue and enters the loop.
Enqueue(c, name) ==
    /\ NextCall(c)
    /\ now \in ArrivalInstants
    /\ tool' = [tool EXCEPT ![c] = name]
    /\ start_time' = [start_time EXCEPT ![c] = now]
    /\ queue' = Append(queue, c)
    /\ event' = [event EXCEPT ![c] = (Len(queue') = 1)]
    /\ enq_order' = Append(enq_order, c)
    /\ pc' = [pc EXCEPT ![c] = loop_pc(remaining(config, now, now))]
    /\ deadline' = [deadline EXCEPT ![c] = loop_deadline(remaining(config, now, now), now)]
    /\ UNCHANGED <<now, config, global_ts, tool_ts, lock, end_time,
                   func_ran, admitted>>
    /\ UNCHANGED aux_vars

\* (mutant) the front test without the comparison with my_event
at_front_any(q, c) == q # <<>>

\* self._queue[0][0] is my_event (the queue is not empty)
at_front(q, c) == q # <<>> /\ Head(q) = c

\* my_event.wait returns (the event is set, or the timeout ran out); then, under
\* the queue lock: are we at the front of the queue?  If not, clear the event
\* and go round the loop.
WaitCheck(c) ==
    /\ pc[c] = "wait"
    /\ (event[c] \/ now >= deadline[c])
    /\ IF at_front(queue, c)
       THEN /\ pc' = [pc EXCEPT ![c] = "try"]
            /\ deadline' = [deadline EXCEPT ![c] = 0]
            /\ UNCHANGED event
       ELSE /\ event' = [event EXCEPT ![c] = FALSE]
            /\ pc' = [pc EXCEPT ![c] = loop_pc(remaining(config, start_time[c], now))]
            /\ deadline' = [deadline EXCEPT ![c] =
                               loop_deadline(remaining(config, start_time[c], now), now)]
    /\ UNCHANGED <<now, config, global_ts, tool_ts, lock, queue, tool,
                   start_time, end_time, func_ran, enq_order, admitted>>
    /\ UNCHANGED aux_vars

\* _record_call: the deque after appending now
_record_call(timestamps, t) == Append(timestamps, t)

\* if wait_time <= 0: the call can proceed
can_proceed(w) == w <= 0

\* under self._lock: _calculate_wait_time, and either _record_call (the lock is
\* kept for the popleft and the notify) or, the lock released, the second timeout
\* check and the start of the backoff sleep
TryAcquire(c) ==
    /\ pc[c] = "try"
    /\ lock = None
    /\ LET cg == _clean_old_timestamps(global_ts, now)
           ct == _clean_old_timestamps(tool_ts[tool[c]], now)
           w  == _calculate_wait_time(config, global_ts, tool_ts[tool[c]], tool[c], now)
           rem == remaining(config, start_time[c], now)
       IN  IF can_proceed(w)
           THEN /\ global_ts' = _record_call(cg, now)
                /\ tool_ts' = [tool_ts EXCEPT ![tool[c]] = _record_call(ct, now)]
                /\ admitted' = Append(admitted, <<c, now>>)
                /\ lock' = c
                /\ pc' = [pc EXCEPT ![c] = "pop"]
                /\ UNCHANGED deadline
           ELSE /\ global_ts' = cg
                /\ tool_ts' = [tool_ts EXCEPT ![tool[c]] = ct]
                /\ UNCHANGED <<admitted, lock>>
                /\ IF rem <= 0
                   THEN /\ pc' = [pc EXCEPT ![c] = "cleanup"]
                        /\ UNCHANGED deadline
                   ELSE /\ pc' = [pc EXCEPT ![c] = "sleep"]
                        /\ deadline' = [deadline EXCEPT ![c] = now + sleep_time(w, rem)]
    /\ UNCHANGED <<now, config, queue, event, tool, start_time, end_time,
                   func_ran, enq_order>>
    /\ UNCHANGED aux_vars

\* time.sleep(sleep_time) returns; the call goes round the loop
SleepReturn(c) ==
    /\ pc[c] = "sleep"
    /\ now >= deadline[c]
    /\ pc' = [pc EXCEPT ![c] = loop_pc(remaining(config, start_time[c], now))]
    /\ deadline' = [deadline EXCEPT ![c] =
                       loop_deadline(remaining(config, start_time[c], now), now)]
    /\ UNCHANGED <<now, config, global_ts, tool_ts, lock, queue, event, tool,
                   start_time, end_time, func_ran, enq_order, admitted>>
    /\ UNCHANGED aux_vars

\* with self._queue_lock: self._queue.popleft()   (self._lock still held)
PopLeft(c) ==
    /\ pc[c] = "pop"
    /\ queue' = Tail(queue)
    /\ pc' = [pc EXCEPT ![c] = "notify"]
    /\ UNCHANGED <<now, config, global_ts, tool_ts, lock, event, tool,
                   start_time, deadline, end_time, func_ran, enq_order, admitted>>
    /\ UNCHANGED aux_vars

\* self._notify_next()   (self._lock still held)
Notify(c) ==
    /\ pc[c] = "notify"
    /\ event' = _notify_next(queue, event)
    /\ pc' = [pc EXCEPT ![c] = "return"]
    /\ UNCHANGED <<now, config, global_ts, tool_ts, lock, queue, tool,
                   start_time, deadline, end_time, func_ran, enq_order, admitted>>
    /\ UNCHANGED aux_vars

\* return: self._lock is released on the way out of its block; back in the
\* wrapper, func is called
Return(c) ==
    /\ pc[c] = "return"
    /\ lock' = None
    /\ end_time' = [end_time EXCEPT ![c] = now]
    /\ func_ran' = [func_ran EXCEPT ![c] = wrapper_calls_func("returned")]
    /\ pc' = [pc EXCEPT ![c] = "returned"]
    /\ UNCHANGED <<now, config, global_ts, tool_ts, queue, event, tool,
                   start_time, deadline, enq_order, admitted>>
    /\ UNCHANGED aux_vars

\* except Exception: remove our entry from the queue
Cleanup(c) ==
    /\ pc[c] = "cleanup"
    /\ queue' = without(queue, c)
    /\ pc' = [pc EXCEPT ![c] = "cleanup_notify"]
    /\ UNCHANGED <<now, config, global_ts, tool_ts, lock, event, tool,
                   start_time, deadline, end_time, func_ran, enq_order, admitted>>
    /\ UNCHANGED aux_vars

\* the handler's self._notify_next()
CleanupNotify(c) ==
    /\ pc[c] = "cleanup_notify"
    /\ event' = _notify_next(queue, event)
    /\ pc' = [pc EXCEPT ![c] = "raise"]
    /\ UNCHANGED <<now, config, global_ts, tool_ts, lock, queue, tool,
                   start_time, deadline, end_time, func_ran, enq_order, admitted>>
    /\ UNCHANGED aux_vars

\* raise   (RateLimitTimeout leaves acquire and the wrapper)
Raise(c) ==
    /\ pc[c] = "raise"
    /\ end_time' = [end_time EXCEPT ![c] = now]
    /\ func_ran' = [func_ran EXCEPT ![c] = wrapper_calls_func("raised")]
    /\ pc' = [pc EXCEPT ![c] = "timed_out"]
    /\ UNCHANGED <<now, config, global_ts, tool_ts, lock, queue, event, tool,
                   start_time, deadline, enq_order, admitted>>
    /\ UNCHANGED aux_vars

\* the positions of a call inside acquire (or back in the wrapper, before func)
InAcquire == {"wait", "try", "sleep", "pop", "notify", "return", "cleanup", "cleanup_notify",
              "raise"}

\* An exception that is not an Exception (KeyboardInterrupt, SystemExit, ...) is
\* raised in the thread of the call, at whatever statement it stands: before it
\* has joined the queue, while it is blocked in my_event.wait, time.sleep or a
\* lock request, or between two statements.  "except Exception" does not catch
\* it, so the rest of acquire and the handler's queue removal and notify are
\* skipped; a "with self._lock" block that is left releases the lock.
Cancel(c) ==
    /\ \/ pc[c] \in InAcquire
       \/ NextCall(c) /\ now \in ArrivalInstants
    /\ pc' = [pc EXCEPT ![c] = "cancelled"]
    /\ deadline' = [deadline EXCEPT ![c] = 0]
    /\ lock' = IF lock = c THEN None ELSE lock
    /\ UNCHANGED <<now, config, global_ts, tool_ts, queue, event, tool,
                   start_time, end_time, func_ran, enq_order, admitted>>
    /\ UNCHANGED aux_vars

\* the two windows when the exception is raised inside the "with self._lock"
\* block of lines 168-172: _clean_old_timestamps has popped some of the expired
\* entries of the global window (line 98), or all of them and some of the
\* tool's (line 106), or _record_call has appended to the global window only
\* (line 116)
TryStages(c) ==
    LET g  == global_ts
        ts == tool_ts[tool[c]]
        cg == _clean_old_timestamps(g, now)
        ct == _clean_old_timestamps(ts, now)
        w  == _calculate_wait_time(config, g, ts, tool[c], now)
    IN  {[global |-> pg, tool |-> ts] : pg \in partly_cleaned(g, now)}
        \cup {[global |-> cg, tool |-> pt] : pt \in partly_cleaned(ts, now)}
        \cup (IF can_proceed(w) THEN {[global |-> _record_call(cg, now), tool |-> ct]}
              ELSE {})

\* The exception is raised inside the "with self._lock" block of the admission
\* attempt, after _calculate_wait_time or _record_call has changed a window.
CancelInTry(c) ==
    /\ pc[c] = "try"
    /\ lock = None
    /\ \E stage \in TryStages(c) :
          /\ global_ts' = stage.global
          /\ tool_ts' = [tool_ts EXCEPT ![tool[c]] = stage.tool]
    /\ pc' = [pc EXCEPT ![c] = "cancelled"]
    /\ deadline' = [deadline EXCEPT ![c] = 0]
    /\ UNCHANGED <<now, config, lock, queue, event, tool, start_time, end_time,
                   func_ran, enq_order, admitted>>
    /\ UNCHANGED aux_vars

\* The exception is raised inside the "with self._queue_lock" block of lines
\* 142-146, after the entry has been appended and before my_event.set().
CancelInEnqueue(c, name) ==
    /\ NextCall(c)
    /\ now \in ArrivalInstants
    /\ tool' = [tool EXCEPT ![c] = name]
    /\ start_time' = [start_time EXCEPT ![c] = now]
    /\ queue' = Append(queue, c)
    /\ enq_order' = Append(enq_order, c)
    /\ pc' = [pc EXCEPT ![c] = "cancelled"]
    /\ UNCHANGED <<now, config, global_ts, tool_ts, lock, event, deadline, end_time,
                   func_ran, admitted>>
    /\ UNCHANGED aux_vars

\* (mutant) a status call that also wakes the head of the queue
Status_notifies ==
    /\ lock = None
    /\ global_ts' = _clean_old_timestamps(global_ts, now)
    /\ event' = _notify_next(queue, event)
    /\ UNCHANGED <<now, config, tool_ts, lock, queue, pc, tool,
                   start_time, deadline, end_time, func_ran, enq_order, admitted>>
    /\ UNCHANGED aux_vars

\* get_status: under self._lock, cleans the global deque and returns the snapshot
Status ==
    /\ lock = None
    /\ global_ts' = _clean_old_timestamps(global_ts, now)
    /\ UNCHANGED <<now, config, tool_ts, lock, queue, event, pc, tool,
                   start_time, deadline, end_time, func_ran, enq_order, admitted>>
    /\ UNCHANGED aux_vars

\* get_status is left by an exception that is raised while it cleans the global
\* deque: self._lock is released, some of the expired entries are popped
StatusInterrupted ==
    /\ lock = None
    /\ \E g \in partly_cleaned(global_ts, now) : global_ts' = g
    /\ UNCHANGED <<now, config, tool_ts, lock, queue, event, pc, tool,
                   start_time, deadline, end_time, func_ran, enq_order, admitted>>
    /\ UNCHANGED aux_vars

\* ------------------------------------------------------------------ time

Running == {"try", "pop", "notify", "return", "cleanup", "cleanup_notify", "raise"}

Runnable(c) ==
    \/ pc[c] \in Running
    \/ pc[c] = "wait" /\ (event[c] \/ now >= deadline[c])
    \/ pc[c] = "sleep" /\ now >= deadline[c]

NextInstants ==
    {deadline[c] : c \in {d \in Calls : pc[d] \in {"wait", "sleep"}}}
    \cup {a \in ArrivalInstants : a > now}

\* The clock moves to the next instant at which something can happen.
Tick ==
    /\ \A c \in Calls : ~Runnable(c)
    /\ NextInstants # {}
    /\ Min(NextInstants) <= MaxTime
    /\ now' = Min(NextInstants)
    /\ UNCHANGED <<config, global_ts, tool_ts, lock, queue, event, pc, tool,
                   start_time, deadline, end_time, func_ran, enq_order, admitted>>
    /\ UNCHANGED aux_vars

Next ==
    \/ \E c \in Calls, name \in ToolNames : Enqueue(c, name)
    \/ \E c \in Calls : WaitCheck(c)
    \/ \E c \in Calls : TryAcquire(c)
    \/ \E c \in Calls : SleepReturn(c)
    \/ \E c \in Calls : PopLeft(c)
    \/ \E c \in Calls : Notify(c)
    \/ \E c \in Calls : Return(c)
    \/ \E c \in Calls : Cleanup(c)
    \/ \E c \in Calls : CleanupNotify(c)
    \/ \E c \in Calls : Raise(c)
    \/ \E c \in Calls : Cancel(c)
    \/ \E c \in Calls : CancelInTry(c)
    \/ StatusInterrupted
    \/ \E c \in Calls, name \in ToolNames : CancelInEnqueue(c, name)
    \/ Status
    \/ Tick

Spec == Init /\ [][Next]_vars

\* ------------------------------------------- a tool override with a short wait
\* The limiter constructed from a configuration in which tool "a" is limited to
\* 1 per second and max_wait (0.95 s) is shorter than the window and no multiple
\* of the polling interval: a call for "a" can use up its whole wait while a
\* call for "x", queued behind it, has room.
OverrideConfigs ==
    { [max_requests_per_second |-> 10, max_wait_seconds |-> 95,
       tools |-> [n \in {"a"} |-> [max_requests_per_second |-> 1]]] }

OverrideInit ==
    /\ source \in {FileOf(c) : c \in OverrideConfigs}
    /\ config = _load_config(source)
    /\ built = "yes"
    /\ outcome = [op \in Ops |-> "not_called"]
    /\ Fresh
    /\ NoCall
    /\ NoRequest

OverrideSpec == OverrideInit /\ [][Next]_vars

\* --------------------------------------------- a limiter that has served calls
\* The limiter after acquire("x") was called, and returned at once, at earlier
\* instants, one call after the other; then the calls of Next arrive.  The
\* clock reads 0 when the first of them arrives, so the earlier instants are
\* negative.
BackoffConfigs ==
    { [max_requests_per_second |-> 2, max_wait_seconds |-> 100, tools |-> <<>>] }

\* the instants of the earlier calls: two calls half a second apart, and the
\* same two calls after a call one second before the second of them, with one
\* more call at the instant of the second
PriorCalls == { <<-70, -20>>, <<-120, -70, -20, -20>> }

\* the windows after acquire("x") at the first k of the instants, on a new
\* limiter; at_once tells whether every one of them found wait_time <= 0
RECURSIVE served(_, _, _)
served(cfg, instants, k) ==
    IF k = 0 THEN [global |-> <<>>, x |-> <<>>, at_once |-> TRUE]
    ELSE LET before == served(cfg, instants, k - 1)
         IN  [global |-> _record_call(_clean_old_timestamps(before.global, instants[k]),
                                      instants[k]),
              x |-> _record_call(_clean_old_timestamps(before.x, instants[k]), instants[k]),
              at_once |-> /\ before.at_once
                          /\ can_proceed(_calculate_wait_time(cfg, before.global, before.x,
                                                              "x", instants[k]))]

BackoffInit ==
    /\ source \in {FileOf(c) : c \in BackoffConfigs}
    /\ config = _load_config(source)
    /\ built = "yes"
    /\ outcome = [op \in Ops |-> "not_called"]
    /\ now = 0
    /\ \E instants \in PriorCalls :
          /\ served(config, instants, Len(instants)).at_once
          /\ global_ts = served(config, instants, Len(instants)).global
          /\ tool_ts = [n \in ToolNames |->
                           IF n = "x" THEN served(config, instants, Len(instants)).x
                           ELSE <<>>]
    /\ lock = None
    /\ queue = <<>>
    /\ event = [c \in Calls |-> FALSE]
    /\ pc = [c \in Calls |-> "idle"]
    /\ tool = [c \in Calls |-> "x"]
    /\ start_time = [c \in Calls |-> 0]
    /\ deadline = [c \in Calls |-> 0]
    /\ end_time = [c \in Calls |-> 0]
    /\ func_ran = [c \in Calls |-> FALSE]
    /\ enq_order = <<>>
    /\ admitted = <<>>
    /\ qlock = None
    /\ lpc = [c \in Calls |-> "idle"]
    /\ inv = [i \in Invocations |-> NotInvoked]
    /\ _shutting_down = FALSE
    /\ hlog = <<>>
    /\ NoCall
    /\ NoRequest

BackoffSpec == BackoffInit /\ [][Next]_vars

\* ------------------------------------------------ a clock that is set back
\* time.time() is the system's wall clock, which can be set back (by an
\* administrator or a time synchronisation) while the limiter is in use.
\* by how much the clock is set back: one second
Skew == 100

\* The wall clock is set back.  start_time and the timestamps already recorded
\* were read before and stay; my_event.wait and time.sleep measure their
\* timeouts on the monotonic clock, so a wait in progress ends after the same
\* duration, at a reading of time.time() that is smaller by as much.
ClockBack ==
    /\ now >= Skew
    /\ now' = now - Skew
    /\ deadline' = [c \in Calls |->
                       IF pc[c] \in {"wait", "sleep"} THEN deadline[c] - Skew
                       ELSE deadline[c]]
    /\ UNCHANGED <<config, global_ts, tool_ts, lock, queue, event, pc, tool,
                   start_time, end_time, func_ran, enq_order, admitted>>
    /\ UNCHANGED aux_vars

SkewNext ==
    \/ Next
    \/ ClockBack

SkewSpec == Init /\ [][SkewNext]_vars

\* ---------------------------------------------------------- construction
\* The constructor and the first operations on the new limiter, over every state
\* of the configuration source.

\* self.config["max_requests_per_second"]
lookup_rate(cfg) ==
    IF "max_requests_per_second" \in DOMAIN cfg THEN "ok" ELSE "KeyError"

\* acquire(name) on a limiter with no call waiting: the call is at once the head
\* of the queue and computes its wait time on the windows g (global) and ts
\* (its tool's) at time t; a KeyError is re-raised by the handler; a call that
\* has to wait is blocked
first_acquire(cfg, g, ts, name, t) ==
    IF lookup_rate(cfg) = "KeyError" THEN "KeyError"
    ELSE IF can_proceed(_calculate_wait_time(cfg, g, ts, name, t)) THEN "returned"
    ELSE "blocked"

\* get_status() on the new limiter
first_status(cfg) ==
    IF lookup_rate(cfg) = "KeyError" THEN "KeyError" ELSE "returned"

LoadInit ==
    /\ source \in AllSources
    /\ config = <<>>
    /\ built = "no"
    /\ outcome = [op \in Ops |-> "not_called"]
    /\ Fresh
    /\ NoCall
    /\ NoRequest

load_rest == <<now, lock, queue, event, pc, tool, start_time,
               deadline, end_time, func_ran, enq_order, admitted, lock_vars,
               stack_vars, health_vars, parse_vars, snap_vars, url_vars, pick_vars>>

load_frame == <<global_ts, tool_ts, load_rest>>

\* RateLimiter(config_path): __init__ stores what _load_config returns; an
\* exception of _load_config leaves the constructor
Construct ==
    /\ built = "no"
    /\ LET r == _load_config(source)
       IN  IF Raised(r)
           THEN built' = r.raised /\ UNCHANGED config
           ELSE built' = "yes" /\ config' = r
    /\ UNCHANGED <<source, outcome, load_frame>>

\* the first acquire(name) on the constructed limiter: a call that can proceed
\* is recorded in both windows and returns
FirstAcquire(name) ==
    /\ built = "yes"
    /\ outcome[name] = "not_called"
    /\ outcome' = [outcome EXCEPT ![name] =
                      first_acquire(config, global_ts, tool_ts[name], name, now)]
    /\ IF outcome'[name] = "returned"
       THEN /\ global_ts' = _record_call(_clean_old_timestamps(global_ts, now), now)
            /\ tool_ts' = [tool_ts EXCEPT ![name] =
                              _record_call(_clean_old_timestamps(tool_ts[name], now), now)]
       ELSE UNCHANGED <<global_ts, tool_ts>>
    /\ UNCHANGED <<source, built, config, load_rest>>

\* the first get_status() on the constructed limiter
FirstStatus ==
    /\ built = "yes"
    /\ outcome["get_status"] = "not_called"
    /\ outcome' = [outcome EXCEPT !["get_status"] = first_status(config)]
    /\ global_ts' = _clean_old_timestamps(global_ts, now)
    /\ UNCHANGED <<source, built, config, tool_ts, load_rest>>

LoadNext ==
    \/ Construct
    \/ \E name \in ToolNames : FirstAcquire(name)
    \/ FirstStatus

LoadSpec == LoadInit /\ [][LoadNext]_vars

\* ------------------------------------------------------------- the locks
\* acquire and get_status lock by lock: every "with" block is a step that takes
\* the lock (the thread blocks while another thread holds it) and a step that
\* runs the block and releases it.  Whether the rate allows the call and whether
\* max_wait has run out are left open.

\* a thread at one of these positions is requesting self._queue_lock
QReq == {"q_enqueue", "q_check", "q_pop", "q_notify", "q_remove", "q_renotify"}
\* a thread at one of these positions is requesting self._lock
LReq == {"l_try", "l_status"}
\* the position inside the block, once the requested lock is taken
Inside ==
    [ q_enqueue |-> "in_enqueue", q_check |-> "in_check", q_pop |-> "in_pop",
      q_notify |-> "in_notify", q_remove |-> "in_remove", q_renotify |-> "in_renotify",
      l_try |-> "in_try", l_status |-> "in_status" ]
\* the operation is over
Finished == {"returned", "raised", "cancelled", "status_done"}

lock_frame == <<now, config, global_ts, tool_ts, pc, tool, start_time, deadline,
                end_time, func_ran, enq_order, admitted, load_vars, stack_vars,
                health_vars, parse_vars, snap_vars, url_vars, pick_vars>>

\* a thread calls acquire (which first requests the queue lock to join the
\* queue) or get_status (which requests self._lock); the threads are numbered
\* in the order of their calls
Call(t, op) ==
    /\ lpc[t] = "idle"
    /\ \A u \in Calls : u < t => lpc[u] # "idle"
    /\ lpc' = [lpc EXCEPT ![t] = IF op = "acquire" THEN "q_enqueue" ELSE "l_status"]
    /\ UNCHANGED <<lock, qlock, queue, event, lock_frame>>

\* with self._queue_lock:  (entry)
TakeQueueLock(t) ==
    /\ lpc[t] \in QReq
    /\ qlock = None
    /\ qlock' = t
    /\ lpc' = [lpc EXCEPT ![t] = Inside[lpc[t]]]
    /\ UNCHANGED <<lock, queue, event, lock_frame>>

\* with self._lock:  (entry)
TakeLock(t) ==
    /\ lpc[t] \in LReq
    /\ lock = None
    /\ lock' = t
    /\ lpc' = [lpc EXCEPT ![t] = Inside[lpc[t]]]
    /\ UNCHANGED <<qlock, queue, event, lock_frame>>

\* (mutant) the new entry is put at the front of the queue
EnqueueBody_appendleft(t) ==
    /\ lpc[t] = "in_enqueue"
    /\ queue' = <<t>> \o queue
    /\ event' = [event EXCEPT ![t] = (Len(queue') = 1)]
    /\ qlock' = None
    /\ lpc' = [lpc EXCEPT ![t] = "loop"]
    /\ UNCHANGED <<lock, lock_frame>>

\* self._queue.append(...); if len(self._queue) == 1: my_event.set()
EnqueueBody(t) ==
    /\ lpc[t] = "in_enqueue"
    /\ queue' = Append(queue, t)
    /\ event' = [event EXCEPT ![t] = (Len(queue') = 1)]
    /\ qlock' = None
    /\ lpc' = [lpc EXCEPT ![t] = "loop"]
    /\ UNCHANGED <<lock, lock_frame>>

\* the exception is raised inside the block of lines 142-146 after the append
\* and before my_event.set(): the entry is queued with its event unset
InterruptInEnqueue(t) ==
    /\ lpc[t] = "in_enqueue"
    /\ queue' = Append(queue, t)
    /\ qlock' = None
    /\ lpc' = [lpc EXCEPT ![t] = "cancelled"]
    /\ UNCHANGED <<lock, event, lock_frame>>

\* top of the loop: RateLimitTimeout is raised, or my_event.wait returns (the
\* event is set or the wait times out)
LoopTop(t, timed_out) ==
    /\ lpc[t] = "loop"
    /\ lpc' = [lpc EXCEPT ![t] = IF timed_out THEN "q_remove" ELSE "q_check"]
    /\ UNCHANGED <<lock, qlock, queue, event, lock_frame>>

\* (mutant) the admission attempt nested inside the queue-lock block
CheckBody_nested(t) ==
    /\ lpc[t] = "in_check"
    /\ IF at_front(queue, t)
       THEN /\ lpc' = [lpc EXCEPT ![t] = "l_try"]
            /\ UNCHANGED <<event, qlock>>
       ELSE /\ event' = [event EXCEPT ![t] = FALSE]
            /\ lpc' = [lpc EXCEPT ![t] = "loop"]
            /\ qlock' = None
    /\ UNCHANGED <<lock, queue, lock_frame>>

\* if not self._queue or self._queue[0][0] is not my_event: clear, continue
CheckBody(t) ==
    /\ lpc[t] = "in_check"
    /\ IF at_front(queue, t)
       THEN /\ lpc' = [lpc EXCEPT ![t] = "l_try"]
            /\ UNCHANGED event
       ELSE /\ event' = [event EXCEPT ![t] = FALSE]
            /\ lpc' = [lpc EXCEPT ![t] = "loop"]
    /\ qlock' = None
    /\ UNCHANGED <<lock, queue, lock_frame>>

\* (mutant) the backoff sleep inside the "with self._lock" block
TryBody_sleeps_inside(t, ok) ==
    /\ lpc[t] = "in_try"
    /\ lpc' = [lpc EXCEPT ![t] = IF ok THEN "q_pop" ELSE "backoff"]
    /\ UNCHANGED <<lock, qlock, queue, event, lock_frame>>

\* wait_time = self._calculate_wait_time(tool_name); if wait_time <= 0: record
\* and go on to the popleft with self._lock held, else leave the block
TryBody(t, ok) ==
    /\ lpc[t] = "in_try"
    /\ IF ok
       THEN /\ lpc' = [lpc EXCEPT ![t] = "q_pop"]
            /\ UNCHANGED lock
       ELSE /\ lpc' = [lpc EXCEPT ![t] = "backoff"]
            /\ lock' = None
    /\ UNCHANGED <<qlock, queue, event, lock_frame>>

\* self._queue.popleft()
PopBody(t) ==
    /\ lpc[t] = "in_pop"
    /\ queue' = Tail(queue)
    /\ qlock' = None
    /\ lpc' = [lpc EXCEPT ![t] = "q_notify"]
    /\ UNCHANGED <<lock, event, lock_frame>>

\* _notify_next's block: the queue lock is released, self._lock is still held
NotifyBody(t) ==
    /\ lpc[t] = "in_notify"
    /\ event' = _notify_next(queue, event)
    /\ qlock' = None
    /\ lpc' = [lpc EXCEPT ![t] = "at_return"]
    /\ UNCHANGED <<lock, queue, lock_frame>>

\* return: self._lock is released on the way out of its block
ReturnBody(t) ==
    /\ lpc[t] = "at_return"
    /\ lock' = None
    /\ lpc' = [lpc EXCEPT ![t] = "returned"]
    /\ UNCHANGED <<qlock, queue, event, lock_frame>>

\* after the admission attempt failed: RateLimitTimeout is raised, or
\* time.sleep returns and the loop goes round
Backoff(t, timed_out) ==
    /\ lpc[t] = "backoff"
    /\ lpc' = [lpc EXCEPT ![t] = IF timed_out THEN "q_remove" ELSE "loop"]
    /\ UNCHANGED <<lock, qlock, queue, event, lock_frame>>

\* except Exception: self._queue = deque(... if e is not my_event)
RemoveBody(t) ==
    /\ lpc[t] = "in_remove"
    /\ queue' = without(queue, t)
    /\ qlock' = None
    /\ lpc' = [lpc EXCEPT ![t] = "q_renotify"]
    /\ UNCHANGED <<lock, event, lock_frame>>

\* the handler's _notify_next block
RenotifyBody(t) ==
    /\ lpc[t] = "in_renotify"
    /\ event' = _notify_next(queue, event)
    /\ qlock' = None
    /\ lpc' = [lpc EXCEPT ![t] = "at_raise"]
    /\ UNCHANGED <<lock, queue, lock_frame>>

\* raise: RateLimitTimeout leaves acquire
RaiseBody(t) ==
    /\ lpc[t] = "at_raise"
    /\ lpc' = [lpc EXCEPT ![t] = "raised"]
    /\ UNCHANGED <<lock, qlock, queue, event, lock_frame>>

\* get_status's block: clean the global deque, build the snapshot (len of the
\* queue is read without the queue lock)
StatusBody(t) ==
    /\ lpc[t] = "in_status"
    /\ lock' = None
    /\ lpc' = [lpc EXCEPT ![t] = "status_done"]
    /\ UNCHANGED <<qlock, queue, event, lock_frame>>

\* an exception that is not an Exception is raised in the thread, at whatever
\* position it stands (blocked in a lock request, in my_event.wait or in
\* time.sleep, or inside a block before its statements): the handler does not
\* run, and the "with" blocks that are left release their locks
Interrupt(t) ==
    /\ lpc[t] \notin Finished \cup {"idle"}
    /\ lpc' = [lpc EXCEPT ![t] = "cancelled"]
    /\ lock' = IF lock = t THEN None ELSE lock
    /\ qlock' = IF qlock = t THEN None ELSE qlock
    /\ UNCHANGED <<queue, event, lock_frame>>

LockNext ==
    \/ \E t \in Calls, op \in {"acquire", "get_status"} : Call(t, op)
    \/ \E t \in Calls : TakeQueueLock(t)
    \/ \E t \in Calls : TakeLock(t)
    \/ \E t \in Calls : EnqueueBody(t)
    \/ \E t \in Calls, timed_out \in BOOLEAN : LoopTop(t, timed_out)
    \/ \E t \in Calls : CheckBody(t)
    \/ \E t \in Calls, ok \in BOOLEAN : TryBody(t, ok)
    \/ \E t \in Calls : PopBody(t)
    \/ \E t \in Calls : NotifyBody(t)
    \/ \E t \in Calls : ReturnBody(t)
    \/ \E t \in Calls, timed_out \in BOOLEAN : Backoff(t, timed_out)
    \/ \E t \in Calls : RemoveBody(t)
    \/ \E t \in Calls : RenotifyBody(t)
    \/ \E t \in Calls : RaiseBody(t)
    \/ \E t \in Calls : InterruptInEnqueue(t)
    \/ \E t \in Calls : StatusBody(t)
    \/ \E t \in Calls : Interrupt(t)

LockSpec == Init /\ [][LockNext]_vars

\* ------------------------------------------------- the decorator stack
\* One invocation of a tool goes into its decorators from the outermost to the
\* function body; an exception comes back out through the layers entered.

stack_frame == <<now, config, global_ts, tool_ts, lock, queue, event, pc, tool,
                 start_time, deadline, end_time, func_ran, enq_order, admitted,
                 load_vars, lock_vars, health_vars, parse_vars, snap_vars, url_vars,
                 pick_vars>>

\* the layer the invocation enters next, or "body" when all are entered
NextLayer(r) ==
    IF r.depth < Len(Decorators[r.tool]) THEN Decorators[r.tool][r.depth + 1] ELSE "body"

\* the server calls the decorated tool
Invoke(i, t) ==
    /\ inv[i].st = "idle"
    /\ inv' = [inv EXCEPT ![i] = [NotInvoked EXCEPT !.tool = t, !.st = "entering"]]
    /\ UNCHANGED stack_frame

\* rate_limited's wrapper: limiter.acquire(func.__name__), then func is called
\* if acquire returned; RateLimitTimeout leaves the wrapper
Gate(i, acquire_outcome) ==
    /\ inv[i].st = "entering"
    /\ NextLayer(inv[i]) = "rate_limited"
    /\ inv' = [inv EXCEPT ![i] =
                  IF wrapper_calls_func(acquire_outcome)
                  THEN [@ EXCEPT !.log = Append(@, "acquire"), !.depth = @ + 1]
                  ELSE [@ EXCEPT !.log = Append(@, "acquire"), !.st = "unwinding",
                                 !.exc = "RateLimitTimeout"]]
    /\ UNCHANGED stack_frame

\* notify_on_error's wrapper: try: return await func(...)
Boundary(i) ==
    /\ inv[i].st = "entering"
    /\ NextLayer(inv[i]) = "notify_on_error"
    /\ inv' = [inv EXCEPT ![i] = [@ EXCEPT !.log = Append(@, "try"), !.depth = @ + 1]]
    /\ UNCHANGED stack_frame

\* the tool function runs: it returns a value or raises
Body(i, body_outcome) ==
    /\ inv[i].st = "entering"
    /\ NextLayer(inv[i]) = "body"
    /\ inv' = [inv EXCEPT ![i] =
                  IF body_outcome = "returns"
                  THEN [@ EXCEPT !.log = Append(@, "body"), !.st = "done",
                                 !.result = "value"]
                  ELSE [@ EXCEPT !.log = Append(@, "body"), !.st = "unwinding",
                                 !.exc = body_outcome]]
    /\ UNCHANGED stack_frame

\* the exception leaves the innermost layer entered: notify_on_error's
\* "except Exception" calls send_slack_error and re-raises; rate_limited's
\* wrapper has no handler
Unwind(i, post_outcome) ==
    /\ inv[i].st = "unwinding"
    /\ inv[i].depth > 0
    /\ inv' = [inv EXCEPT ![i] =
                  IF Decorators[@.tool][@.depth] = "notify_on_error" /\ caught(@.exc)
                  THEN [@ EXCEPT !.log = Append(@, "send_slack_error"),
                                 !.depth = @ - 1,
                                 !.exc = IF send_slack_error(post_outcome) = "returned"
                                         THEN @ ELSE "SlackError"]
                  ELSE [@ EXCEPT !.depth = @ - 1]]
    /\ UNCHANGED stack_frame

\* the exception reaches the caller of the tool
Propagate(i) ==
    /\ inv[i].st = "unwinding"
    /\ inv[i].depth = 0
    /\ inv' = [inv EXCEPT ![i] = [@ EXCEPT !.st = "done", !.result = inv[i].exc]]
    /\ UNCHANGED stack_frame

StackNext ==
    \/ \E i \in Invocations, t \in Tools : Invoke(i, t)
    \/ \E i \in Invocations, o \in {"returned", "raised"} : Gate(i, o)
    \/ \E i \in Invocations : Boundary(i)
    \/ \E i \in Invocations, o \in {"returns", "Exception", "BaseException"} : Body(i, o)
    \/ \E i \in Invocations, o \in {"ok", "fails"} : Unwind(i, o)
    \/ \E i \in Invocations : Propagate(i)

StackSpec == Init /\ [][StackNext]_vars

\* ------------------------------------------------------ the health endpoint
\* src/app.py: the handler registered for SIGTERM and SIGINT, and GET /health.

Signals == {"SIGTERM", "SIGINT"}

health_frame == <<now, config, global_ts, tool_ts, lock, queue, event, pc, tool,
                  start_time, deadline, end_time, func_ran, enq_order, admitted,
                  load_vars, lock_vars, stack_vars, parse_vars, snap_vars, url_vars,
                  pick_vars>>

\* (mutant) a handler that reacts to SIGTERM only
_handle_shutdown_term_only(signum, flag) == flag \/ signum = "SIGTERM"

\* _handle_shutdown: the value it gives _shutting_down
_handle_shutdown(signum, flag) == TRUE

\* health_check: the response for a value of _shutting_down
health_check(flag) ==
    IF flag THEN [status_code |-> 503, content |-> "shutting down"]
    ELSE [status_code |-> 200, content |-> "ok"]

\* the process receives SIGTERM or SIGINT: the registered handler runs
Signal(signum) ==
    /\ Len(hlog) < MaxEvents
    /\ _shutting_down' = _handle_shutdown(signum, _shutting_down)
    /\ hlog' = Append(hlog, [signal |-> signum])
    /\ UNCHANGED health_frame

\* GET /health
HealthCheck ==
    /\ Len(hlog) < MaxEvents
    /\ hlog' = Append(hlog, health_check(_shutting_down))
    /\ UNCHANGED <<_shutting_down, health_frame>>

HealthNext ==
    \/ \E signum \in Signals : Signal(signum)
    \/ HealthCheck

HealthSpec == Init /\ [][HealthNext]_vars

\* ------------------------------------------------ parse_wayback_timestamp
\* the characters of the timestamps tried
TsChars == {"0", "2", "-"}

parse_frame == <<now, config, global_ts, tool_ts, lock, queue, event, pc, tool,
                 start_time, deadline, end_time, func_ran, enq_order, admitted,
                 load_vars, lock_vars, stack_vars, health_vars, snap_vars, url_vars,
                 pick_vars>>

ParseInit ==
    /\ Constructed
    /\ Fresh
    /\ ts_arg \in Strings(TsChars, MaxTsLen)
    /\ parsed = Null
    /\ NoHelperCall
    /\ NoRequest

\* parse_wayback_timestamp(ts) is called
Parse ==
    /\ parsed = Null
    /\ parsed' = parse_wayback_timestamp(ts_arg)
    /\ UNCHANGED <<ts_arg, parse_frame>>

ParseNext == Parse

ParseSpec == ParseInit /\ [][ParseNext]_vars

\* ------------------------------------------- calls of list_available_snapshots
\* The arguments tried: cutoff dates in "YYYY-MM-DD" form; end dates before, on
\* and after them, and end dates that name only a year or a month, or are empty;
\* lists of years in any order, with repeats.
\* "2024-06- 1" is a date for strptime: %d takes a blank and a digit
CutoffDates == {Iso(2024, 6, 1), Iso(2023, 12, 31), YearMonth(2024, 6) \o <<"-", " ", "1">>}
EndDates == {Null, <<>>, Iso(2024, 1, 15), Iso(2025, 1, 1), Pad(2024, 4), YearMonth(2023, 12)}
YearLists == {<<>>, <<2024>>, <<2025, 2023>>, <<2024, 2023, 2024>>}
TargetDates == {Null, Iso(2024, 1, 20), Iso(2024, 12, 1)}
Picks == {"", "closest_to_end", "closest_to_start", "closest_to_date", "monthly", "yearly"}
Captures == {Capture(2023, 7, 1), Capture(2024, 1, 15), Capture(2024, 6, 1), Capture(2024, 9, 15)}

snap_frame == <<now, config, global_ts, tool_ts, lock, queue, event, pc, tool,
                start_time, deadline, end_time, func_ran, enq_order, admitted,
                load_vars, lock_vars, stack_vars, health_vars, parse_vars, url_vars,
                pick_vars>>

SnapInit ==
    /\ Constructed
    /\ Fresh
    /\ NoCall
    /\ req \in [cutoff_date : CutoffDates, end_date : EndDates, years : YearLists,
                 target_date : TargetDates, pick : Picks]
    /\ archive \in SUBSET Captures
    /\ resp = NoResponse

\* list_available_snapshots(url, end_date, years, pick, target_date, cutoff_date)
ListSnapshots ==
    /\ ~resp.done
    /\ resp' = list_available_snapshots(req, archive, DefaultLimit)
    /\ UNCHANGED <<req, archive, snap_frame>>

SnapNext == ListSnapshots

SnapSpec == SnapInit /\ [][SnapNext]_vars

\* ------------------------------------------------ calls of get_url_variations
\* The URLs tried: with and without a scheme (the tools accept "example.com/page"
\* and "https://example.com/page"), with and without "www.", with paths that end
\* in a slash, a page extension or neither, and with a query, a fragment or
\* path parameters.
UrlPrefixes == {<<>>, <<"h", "t", "t", "p", "s", ":", "/", "/">>, <<"H", "T", "T", "P", ":", "/", "/">>, <<"/", "/">>}
UrlHosts == {<<"e", ".", "c", "o", "m">>, <<"w", "w", "w", ".", "e", ".", "c", "o", "m">>}
UrlPaths == {<<>>, <<"/">>, <<"/", "p">>, <<"/", "d", "/", "p">>, <<"/", "d", "/">>, <<"/", "p", ".", "h", "t", "m", "l">>, <<"/", "p", ".", "h", "t", "m">>, <<"/", "p", ".", "p", "h", "p">>, <<"/", "p", ".", "a", "s", "p">>,
             <<"/", "p", ".", "a", "s", "p", "x">>, <<"/", "p", ".", "j", "s", "p">>, <<"/", "p", ".", "P", "H", "P">>, <<"/", "p", ".", "t", "x", "t">>}
UrlTails == {<<>>, <<"?">>, <<"?", "q", "=", "1">>, <<"#">>, <<"#", "f">>, <<";">>, <<";", "x">>, <<"?", "q", "=", "/", "p", ".", "h", "t", "m", "l">>}
Urls == {a \o h \o p \o t : a \in UrlPrefixes, h \in UrlHosts, p \in UrlPaths, t \in UrlTails}

url_frame == <<now, config, global_ts, tool_ts, lock, queue, event, pc, tool,
               start_time, deadline, end_time, func_ran, enq_order, admitted,
               load_vars, lock_vars, stack_vars, health_vars, parse_vars, snap_vars,
               pick_vars>>

UrlInit ==
    /\ Constructed
    /\ Fresh
    /\ ts_arg = <<>>
    /\ parsed = Null
    /\ NoRequest
    /\ url_arg \in Urls
    /\ variations = Null
    /\ pick_arg = [snapshots |-> <<>>, pick |-> "", target_date |-> Null]
    /\ picked = [done |-> FALSE]

\* get_url_variations(url) is called
UrlVariations ==
    /\ variations = Null
    /\ variations' = get_url_variations(url_arg)
    /\ UNCHANGED <<url_arg, url_frame>>

UrlNext == UrlVariations

UrlSpec == UrlInit /\ [][UrlNext]_vars

\* ------------------------------------------------ calls of apply_pick_filter
\* The snapshots tried: two months of 2024 and the same month of 2023, two days
\* of one month, and two captures of one day; in any order, with repeats.
SnapshotPool ==
    { [date |-> Iso(2024, 3, 15), timestamp |-> Capture(2024, 3, 15)],
      [date |-> Iso(2024, 3, 15), timestamp |-> Pad(2024, 4) \o <<"0", "3", "1", "5", "2", "3", "5", "9", "5", "9">>],
      [date |-> Iso(2024, 3, 1), timestamp |-> Capture(2024, 3, 1)],
      [date |-> Iso(2024, 2, 15), timestamp |-> Capture(2024, 2, 15)],
      [date |-> Iso(2023, 3, 15), timestamp |-> Capture(2023, 3, 15)] }

\* all sequences over S of length at most n
RECURSIVE SeqsUpTo(_, _)
SeqsUpTo(S, n) ==
    IF n = 0 THEN {<<>>}
    ELSE LET shorter == SeqsUpTo(S, n - 1)
         IN  shorter \cup {Append(s, e) : s \in {x \in shorter : Len(x) = n - 1}, e \in S}

\* target dates: none, empty, halfway between two snapshots, outside all of
\* them, and one that is no date
PickTargets == {Null, <<>>, Iso(2024, 3, 8), Iso(2023, 1, 1), Iso(2024, 2, 30),
                YearMonth(2024, 3) \o <<"-", " ", "9">>}

pick_frame == <<now, config, global_ts, tool_ts, lock, queue, event, pc, tool,
                start_time, deadline, end_time, func_ran, enq_order, admitted,
                load_vars, lock_vars, stack_vars, health_vars, parse_vars, snap_vars,
                url_vars>>

PickInit ==
    /\ Constructed
    /\ Fresh
    /\ ts_arg = <<>>
    /\ parsed = Null
    /\ NoRequest
    /\ url_arg = <<>>
    /\ variations = Null
    /\ pick_arg \in [snapshots : SeqsUpTo(SnapshotPool, MaxSnapshots),
                     pick : Picks \cup {"unknown"}, target_date : PickTargets]
    /\ picked = [done |-> FALSE]

\* apply_pick_filter(snapshots, pick, target_date) is called
Pick ==
    /\ ~picked.done
    /\ picked' = [done |-> TRUE,
                  result |-> apply_pick_filter(pick_arg.snapshots, pick_arg.pick,
                                               pick_arg.target_date)]
    /\ UNCHANGED <<pick_arg, pick_frame>>

PickNext == Pick

PickSpec == PickInit /\ [][PickNext]_vars

\* ------------------------------------------------------- derived notions

\* positions of a call whose queue entry the code has not yet removed
Queued == {"wait", "try", "sleep", "pop", "cleanup"}
\* acquire has exited: returned, raised RateLimitTimeout, or was abandoned
Exited == {"returned", "timed_out", "cancelled"}
\* positions after _record_call
Recorded == {"pop", "notify", "return", "returned"}

InQueue(c) == \E i \in DOMAIN queue : queue[i] = c
Pos(s, c) == CHOOSE i \in DOMAIN s : s[i] = c
AdmittedCalls == [k \in DOMAIN admitted |-> admitted[k][1]]
AdmittedTimes == [k \in DOMAIN admitted |-> admitted[k][2]]
AdmittedTimesOf(n) ==
    LET of_n == SelectSeq(admitted, LAMBDA a : tool[a[1]] = n)
    IN  [k \in DOMAIN of_n |-> of_n[k][2]]
IsSuffix(s, full) ==
    /\ Len(s) <= Len(full)
    /\ s = SubSeq(full, Len(full) - Len(s) + 1, Len(full))
\* recorded admissions inside the trailing window [t - Window, t], the entries
\* _clean_old_timestamps keeps at time t
InWindow(times, t) == SelectSeq(times, LAMBDA x : x >= t - Window /\ x <= t)
NoneFailed == \A c \in Calls : pc[c] \notin {"cleanup", "cleanup_notify", "raise", "timed_out", "cancelled"}

\* ------------------------------------------------------------------ C1
\* C1: a call is admitted only while it is the head of the wait queue; a call
\* enqueued later is never admitted while a call enqueued earlier is still in
\* the queue; admissions follow the enqueue order, and when no call times out or
\* is abandoned the admission order is the enqueue order.
C1_FifoAdmission ==
    /\ \A c \in Calls : pc[c] \in {"try", "pop"} => at_front(queue, c)
    /\ \A i, j \in DOMAIN admitted :
          i < j => Pos(enq_order, admitted[i][1]) < Pos(enq_order, admitted[j][1])
    /\ \A k \in DOMAIN admitted : \A c \in Calls :
          InQueue(c) => ~(Pos(enq_order, c) < Pos(enq_order, admitted[k][1]))
    /\ NoneFailed => AdmittedCalls = SubSeq(enq_order, 1, Len(admitted))

\* A call for "x", whose budget has room, waits behind an earlier call for "a",
\* which is saturated and in its backoff sleep.
C1_Witness ==
    /\ Len(queue) >= 2
    /\ tool[queue[1]] = "a" /\ pc[queue[1]] = "sleep"
    /\ tool[queue[2]] = "x" /\ pc[queue[2]] = "wait"
    /\ _calculate_wait_time(config, global_ts, tool_ts["x"], "x", now) = 0
    /\ Len(admitted) >= 1

\* ------------------------------------------------------------------ C2
\* C2: at no time does the trailing 1-second window contain more than
\* max_requests_per_second recorded admission timestamps.
C2_GlobalCap ==
    Len(InWindow(AdmittedTimes, now)) <= config.max_requests_per_second

\* ------------------------------------------------------------------ C3
\* C3: at no time does the trailing 1-second window of a tool contain more
\* recorded admission timestamps than the tool's limit (its override, or the
\* global rate).
C3_ToolCap ==
    \A n \in ToolNames :
        Len(InWindow(AdmittedTimesOf(n), now)) <= _get_tool_limit(config, n)

\* ------------------------------------------------------------------ C4
\* C4: once acquire has exited, on any path, the call's Waiter is no longer in
\* the queue; the queue holds exactly the Waiters of the calls in progress.
C4_NoLeakedWaiter ==
    \A c \in Calls :
        /\ pc[c] \in Exited => ~InQueue(c)
        /\ InQueue(c) <=> pc[c] \in Queued

\* ------------------------------------------------------------------ C5
\* C5: a call that has not been admitted while less than max_wait has passed
\* since it began is not admitted afterwards: it fails with RateLimitTimeout, no
\* earlier than max_wait and no later than max_wait plus one polling interval
\* after it began, and no call is still waiting later than that.
C5_TimeoutBound ==
    /\ \A k \in DOMAIN admitted :
          admitted[k][2] - start_time[admitted[k][1]] < max_wait(config)
    /\ \A c \in Calls :
          /\ pc[c] = "timed_out" =>
                /\ end_time[c] - start_time[c] >= max_wait(config)
                /\ end_time[c] - start_time[c] <= max_wait(config) + Poll
          /\ pc[c] \in Queued \cup {"cleanup_notify", "raise"} =>
                now - start_time[c] <= max_wait(config) + Poll

\* the bounds on the time at which RateLimitTimeout is raised, taken alone
C5_TimeoutWindow ==
    \A c \in Calls :
        /\ pc[c] = "timed_out" =>
              /\ end_time[c] - start_time[c] >= max_wait(config)
              /\ end_time[c] - start_time[c] <= max_wait(config) + Poll
        /\ pc[c] \in Queued \cup {"cleanup_notify", "raise"} =>
              now - start_time[c] <= max_wait(config) + Poll

\* ------------------------------------------------------------------ C6
\* C6: every successful acquire appends exactly one timestamp to the global
\* window and the same one to its tool's window; a failed acquire appends none,
\* and nothing else appends: the timestamps ever recorded are those of the
\* successful calls.  (Violated: a call that is left by KeyboardInterrupt or
\* SystemExit after line 116 or line 119 has appended its timestamp to the
\* global window, or to both windows, and has not succeeded.)
C6_RecordOnAdmission ==
    /\ Len(admitted) = Cardinality({c \in Calls : pc[c] \in Recorded})
    /\ \A k \in DOMAIN admitted : pc[admitted[k][1]] \in Recorded
    /\ IsSuffix(global_ts, AdmittedTimes)
    /\ \A n \in ToolNames : IsSuffix(tool_ts[n], AdmittedTimesOf(n))
    /\ Len(global_ts) >= Len(InWindow(AdmittedTimes, now))
    /\ \A n \in ToolNames : Len(tool_ts[n]) >= Len(InWindow(AdmittedTimesOf(n), now))

\* ------------------------------------------------------------------ C7
\* C7: once a Waiter has left (admitted, timed out or cancelled), queue_depth
\* of status() counts only the Waiters still queued, and the Waiter now at the
\* head is a call in progress whose wake signal is set as soon as the leaver's
\* notification has run.
C7_LeaverUnblocksNext ==
    (\E c \in Calls : pc[c] \in Exited) =>
        /\ get_status.queue_depth = Cardinality({c \in Calls : pc[c] \in Queued})
        /\ (queue # <<>> /\ \A c \in Calls : pc[c] \notin {"notify", "cleanup_notify"}) =>
              /\ pc[Head(queue)] \in Queued
              /\ event[Head(queue)]

\* ------------------------------------------------------------------ C8
\* C8: once every issued call has finished, the queue is empty: no Waiter stays
\* in the queue for ever.
C8_QueueDrains ==
    ((\A c \in Calls : pc[c] \in Exited \cup {"idle"}) /\ (\E c \in Calls : pc[c] \in Exited))
        => queue = <<>>

\* ------------------------------------------------------------------ C9
\* C9: the wrapped function runs only after acquire, keyed by the function's
\* name, has returned for that invocation; when acquire raises
\* RateLimitTimeout the function is not run and the error reaches the caller.
C9_WrapperGate ==
    \A c \in Calls :
        /\ func_ran[c] =>
              /\ pc[c] = "returned"
              /\ \E k \in DOMAIN admitted : admitted[k][1] = c
              /\ \E k \in DOMAIN AdmittedTimesOf(tool[c]) :
                    AdmittedTimesOf(tool[c])[k] = end_time[c]
        /\ pc[c] = "returned" => func_ran[c]
        /\ pc[c] = "timed_out" => ~func_ran[c]

\* One invocation ran its function, another got RateLimitTimeout.
C9_Witness ==
    /\ \E c \in Calls : func_ran[c] /\ pc[c] = "returned"
    /\ \E c \in Calls : ~func_ran[c] /\ pc[c] = "timed_out"

\* ------------------------------------------------------------------ C10
\* C10: global rate 2, max_wait 1 s, empty state, three acquire("x") issued at
\* the same instant: the first two in queue order are admitted within less
\* than one window, the third is never admitted and fails with
\* RateLimitTimeout 1 s after it began.
C10_Pre ==
    /\ config.max_requests_per_second = 2
    /\ max_wait(config) = 100
    /\ _get_tool_limit(config, "x") = 2
    /\ Len(enq_order) = 3
    /\ \A i \in 1..3 : tool[enq_order[i]] = "x" /\ start_time[enq_order[i]] = start_time[enq_order[1]]
    /\ \A c \in Calls : pc[c] # "cancelled"

C10_ThreeSimultaneous ==
    C10_Pre =>
        /\ \A i \in 1..2 :
              LET c == enq_order[i]
              IN  pc[c] \in Exited =>
                     /\ pc[c] = "returned"
                     /\ end_time[c] - start_time[c] < Window
        /\ LET c == enq_order[3]
           IN  /\ \A k \in DOMAIN admitted : admitted[k][1] # c
               /\ pc[c] \in Exited =>
                     /\ pc[c] = "timed_out"
                     /\ end_time[c] - start_time[c] = 100

C10_Witness ==
    /\ C10_Pre
    /\ \A i \in 1..3 : pc[enq_order[i]] \in Exited

\* ------------------------------------------------------------------ C11
\* C11: global rate 10, tool "a" limited to 1 per second, default max_wait,
\* empty state, two acquire("a") issued at the same instant: the first is
\* admitted at once, the second is never timed out and is admitted after about
\* one window (the window plus the 0.01 s of the backoff sleep), not before.
C11_Pre ==
    /\ config.max_requests_per_second = 10
    /\ "a" \in DOMAIN config.tools
    /\ config.tools["a"].max_requests_per_second = 1
    /\ "max_wait_seconds" \notin DOMAIN config
    /\ Len(enq_order) >= 2
    /\ \A i \in 1..2 : tool[enq_order[i]] = "a" /\ start_time[enq_order[i]] = start_time[enq_order[1]]
    /\ \A i \in 1..2 : pc[enq_order[i]] # "cancelled"

C11_TwoSimultaneous ==
    C11_Pre =>
        LET first == enq_order[1]
            second == enq_order[2]
            t0 == start_time[enq_order[1]]
        IN  /\ pc[first] \notin {"sleep", "cleanup", "cleanup_notify", "raise", "timed_out"}
            /\ pc[first] = "returned" => end_time[first] = t0
            /\ pc[second] \notin {"cleanup", "cleanup_notify", "raise", "timed_out"}
            /\ \A k \in DOMAIN admitted :
                  admitted[k][1] = second =>
                      /\ admitted[k][2] >= t0 + Window
                      /\ admitted[k][2] <= t0 + Window + Eps
            /\ pc[second] = "returned" => end_time[second] = t0 + Window + Eps
            /\ now > t0 + Window + Eps => pc[second] = "returned"

\* Both calls have returned, the second one window and 0.01 s after the first.
C11_Witness ==
    /\ C11_Pre
    /\ pc[enq_order[1]] = "returned"
    /\ pc[enq_order[2]] = "returned"
    /\ end_time[enq_order[2]] - end_time[enq_order[1]] = Window + Eps

\* ------------------------------------------------------------------ C12
\* C12: a status call, completed or left by an exception while it prunes,
\* changes neither the wait queue nor any wake signal and
\* records no timestamp (it only drops expired entries of the global window);
\* over status calls and the passing of time, with no acquire step in between,
\* the reported queue_depth stays the same and the reported global and
\* per-tool counts never grow.
C12_StatusFrame ==
    [][(Status \/ Tick \/ StatusInterrupted) =>
          /\ queue' = queue
          /\ event' = event
          /\ admitted' = admitted
          /\ tool_ts' = tool_ts
          /\ IsSuffix(global_ts', global_ts)
          /\ get_status'.queue_depth = get_status.queue_depth
          /\ get_status'.global_limit = get_status.global_limit
          /\ get_status'.global_calls_last_second <= get_status.global_calls_last_second
          /\ \A n \in DOMAIN get_status'.tool_calls :
                /\ n \in DOMAIN get_status.tool_calls
                /\ get_status'.tool_calls[n] <= get_status.tool_calls[n]]_vars

\* A status call has pruned the global window (no acquire step leaves it empty
\* beside a tool window that still holds an entry) while calls are queued.
C12_Witness ==
    /\ global_ts = <<>>
    /\ \E n \in ToolNames : tool_ts[n] # <<>>
    /\ queue # <<>>

\* ------------------------------------------------------------------ C13
\* C13: in the snapshot of a status call, global_calls_last_second is the
\* number of admissions inside the trailing window, and tool_calls lists
\* exactly the tools with an admission inside the trailing window, each with
\* the number of its admissions inside it.
C13_StatusCounts ==
    lock = None =>
        /\ get_status.global_calls_last_second = Len(InWindow(AdmittedTimes, now))
        /\ DOMAIN get_status.tool_calls =
              {n \in ToolNames : InWindow(AdmittedTimesOf(n), now) # <<>>}
        /\ \A n \in DOMAIN get_status.tool_calls :
              get_status.tool_calls[n] = Len(InWindow(AdmittedTimesOf(n), now))

\* ------------------------------------------------------------------ C14
\* C14: when the configuration source does not exist the limiter is constructed
\* with global rate 10, max_wait 120 s and no per-tool override: every tool
\* admits a tenth call within a window but not an eleventh, and a call times
\* out when 120 s have passed, not before.
C14_MissingSourceDefaults ==
    ~source.exists =>
        /\ built \in {"no", "yes"}
        /\ built = "yes" =>
              /\ config = [max_requests_per_second |-> 10, max_wait_seconds |-> 12000,
                           tools |-> <<>>]
              /\ max_wait(config) = 12000
              /\ loop_pc(remaining(config, 0, 11999)) = "wait"
              /\ loop_pc(remaining(config, 0, 12000)) = "cleanup"
              /\ \A n \in ToolNames :
                    /\ _get_tool_limit(config, n) = 10
                    /\ can_proceed(_calculate_wait_time(config, [i \in 1..9 |-> now],
                                                        [i \in 1..9 |-> now], n, now))
                    /\ ~can_proceed(_calculate_wait_time(config, [i \in 1..10 |-> now],
                                                         [i \in 1..10 |-> now], n, now))
                    /\ outcome[n] \in {"not_called", "returned"}

\* Without a configuration file the limiter has been constructed and its first
\* acquire of each tool has returned.
C14_Witness ==
    /\ ~source.exists
    /\ built = "yes"
    /\ \A n \in ToolNames : outcome[n] = "returned"

\* ------------------------------------------------------------------ C15
\* C15: constructing the limiter never fails, whatever the configuration
\* source: a source that cannot be loaded yields the built-in defaults, and
\* acquire and get_status of the constructed limiter do not fail because
\* members are absent from the configuration.
C15_LoadNeverFails ==
    /\ built \in {"no", "yes"}
    /\ (built = "yes" /\ (~source.exists \/ ~source.readable \/ ~source.json)) =>
          config = [max_requests_per_second |-> 10, max_wait_seconds |-> 12000,
                    tools |-> <<>>]
    /\ \A op \in Ops : outcome[op] \in {"not_called", "returned", "blocked"}

\* ------------------------------------------------------------------ C16
\* C16: no thread requests the counters lock (self._lock) while it holds the
\* queue lock, no thread requests a lock it holds, a finished operation holds
\* no lock, and whenever a thread is blocked on a lock some thread that holds a
\* lock is not blocked: concurrent acquire and get_status calls never deadlock
\* on the two locks.
Blocked(t) ==
    \/ lpc[t] \in QReq /\ qlock # None
    \/ lpc[t] \in LReq /\ lock # None

C16_NoLockInversion ==
    /\ \A t \in Calls : lpc[t] \in LReq => qlock # t /\ lock # t
    /\ \A t \in Calls : lpc[t] \in QReq => qlock # t
    /\ \A t \in Calls : lpc[t] \in Finished \cup {"idle"} => qlock # t /\ lock # t
    /\ (\E t \in Calls : Blocked(t)) =>
          \E u \in Calls : (qlock = u \/ lock = u) /\ ~Blocked(u)

\* One thread holds the counters lock and requests the queue lock, which a
\* second thread holds, while a third requests the counters lock.
C16_Witness ==
    \E t, u, v \in Calls :
        /\ lock = t /\ lpc[t] \in QReq
        /\ qlock = u /\ u # t
        /\ lpc[v] \in LReq

\* ------------------------------------------------------------------ C17
\* C17: in every invocation of every tool the rate-limit gate runs first, the
\* error-notification boundary is entered after it and the tool body runs
\* inside the boundary; a RateLimitTimeout of the gate reaches the caller with
\* no notification and without the body having run; an error raised by the
\* body causes exactly one notification and reaches the caller as raised,
\* whether or not the notification could be posted; a body that returns causes
\* no notification.
Count(s, e) == Len(SelectSeq(s, LAMBDA x : x = e))

C17_StackOrder ==
    \A i \in Invocations :
        LET r == inv[i]
        IN  /\ r.log # <<>> => r.log[1] = "acquire"
            /\ Len(r.log) >= 2 => r.log[2] = "try"
            /\ Len(r.log) >= 3 => r.log[3] = "body"
            /\ Count(r.log, "acquire") <= 1 /\ Count(r.log, "body") <= 1
            /\ (r.exc = "RateLimitTimeout" \/ r.result = "RateLimitTimeout") =>
                  r.log = <<"acquire">>
            /\ r.result = "value" => r.log = <<"acquire", "try", "body">>
            /\ r.exc = "Exception" =>
                  /\ Count(r.log, "body") = 1
                  /\ Count(r.log, "send_slack_error") <= 1
            /\ (r.st = "done" /\ Count(r.log, "body") = 1 /\ r.result # "value") =>
                  /\ r.result = r.exc
                  /\ r.result \in {"Exception", "BaseException"}
                  /\ r.result = "Exception" =>
                        r.log = <<"acquire", "try", "body", "send_slack_error">>
            /\ r.st = "done" => r.result \in {"value", "RateLimitTimeout", "Exception",
                                               "BaseException"}

\* One invocation ended with the body's error after its notification, another
\* with the gate's RateLimitTimeout.
C17_Witness ==
    \E i, j \in Invocations :
        /\ inv[i].st = "done" /\ inv[i].result = "Exception"
        /\ Count(inv[i].log, "send_slack_error") = 1
        /\ inv[j].st = "done" /\ inv[j].result = "RateLimitTimeout"

\* ------------------------------------------------------------------ C18
\* C18: every health check made before any SIGTERM or SIGINT was received is
\* answered 200 "ok", every check made after one was received is answered 503
\* "shutting down", and the flag, set by the first signal, is never cleared.
IsSignal(e) == "signal" \in DOMAIN e

C18_HealthFollowsSignal ==
    /\ _shutting_down <=> \E k \in DOMAIN hlog : IsSignal(hlog[k])
    /\ \A k \in DOMAIN hlog :
          ~IsSignal(hlog[k]) =>
              IF \E j \in 1..(k - 1) : IsSignal(hlog[j])
              THEN hlog[k] = [status_code |-> 503, content |-> "shutting down"]
              ELSE hlog[k] = [status_code |-> 200, content |-> "ok"]

\* A check answered 200, then SIGINT, a check answered 503, SIGTERM and another
\* check answered 503.
C18_Witness ==
    /\ Len(hlog) >= 5
    /\ hlog[1] = [status_code |-> 200, content |-> "ok"]
    /\ hlog[2] = [signal |-> "SIGINT"]
    /\ hlog[3] = [status_code |-> 503, content |-> "shutting down"]
    /\ hlog[4] = [signal |-> "SIGTERM"]
    /\ hlog[5] = [status_code |-> 503, content |-> "shutting down"]

\* ------------------------------------------------------------------ C20
\* C20: for an input of at least 8 characters parse_wayback_timestamp returns
\* characters 1-4, "-", characters 5-6, "-", characters 7-8, whatever follows;
\* an input shorter than 8 characters is returned unchanged.
C20_ParseTimestamp ==
    parsed # Null =>
        IF Len(ts_arg) >= 8
        THEN /\ Len(parsed) = 10
             /\ \A k \in 1..4 : parsed[k] = ts_arg[k]
             /\ parsed[5] = "-"
             /\ \A k \in 6..7 : parsed[k] = ts_arg[k - 1]
             /\ parsed[8] = "-"
             /\ \A k \in 9..10 : parsed[k] = ts_arg[k - 2]
        ELSE parsed = ts_arg

\* "20200202" (8 characters) gave "2020-02-02".
C20_Witness ==
    /\ ts_arg = <<"2", "0", "2", "0", "0", "2", "0", "2">>
    /\ parsed = <<"2", "0", "2", "0", "-", "0", "2", "-", "0", "2">>

\* ------------------------------------------------------------------ C19
\* C19: with a cutoff_date in YYYY-MM-DD form, in years mode and in range mode,
\* every snapshot returned by list_available_snapshots is dated on or before
\* cutoff_date, and the range of every query sent to the archive ends no later
\* than cutoff_date, whatever end_date, years and target_date are.
SnapshotsWithinCutoff ==
    \A k \in DOMAIN resp.snapshots :
        /\ strptime(resp.snapshots[k].date) # ValueError
        /\ ~DateLess(strptime(req.cutoff_date), strptime(resp.snapshots[k].date))

QueriesWithinCutoff ==
    \A k \in DOMAIN resp.queries :
        ~StrLess(UpperPad(replace_dash(req.cutoff_date)), UpperPad(resp.queries[k].to))

C19_CutoffRespected ==
    (resp.done /\ strptime(req.cutoff_date) # ValueError) =>
        /\ SnapshotsWithinCutoff
        /\ QueriesWithinCutoff

\* ------------------------------------------------------------------ C21
\* C21: get_url_variations(url) returns a list without duplicates whose first
\* element is url and which contains url with the leading "www." of its host
\* removed or, when the host has none, put before it; when url has no "?", does
\* not end with "/" and does not end with a page extension the list also holds
\* url and the toggled URL each followed by ".html", ".htm" and "/", and in
\* every other case it holds no URL with such a suffix added.

\* where the host of a URL begins: after "://", after a leading "//", or at the
\* start of a URL written without a scheme ("example.com/page")
HostStart(url) ==
    LET k == {i \in 1..(Len(url) - 2) : SubSeq(url, i, i + 2) = <<":", "/", "/">>}
    IN  IF k # {} THEN Min(k) + 3
        ELSE IF StartsWith(url, <<"/", "/">>) THEN 3
        ELSE 1

\* url with the leading "www." of its host toggled
WwwToggled(url) ==
    LET s == HostStart(url)
    IN  IF SubSeq(url, s, s + 3) = <<"w", "w", "w", ".">>
        THEN SubSeq(url, 1, s - 1) \o SubSeq(url, s + 4, Len(url))
        ELSE SubSeq(url, 1, s - 1) \o <<"w", "w", "w", ".">> \o SubSeq(url, s, Len(url))

\* url takes suffix variants
TakesSuffixes(url) ==
    /\ Find(url, "?", 1) = 0
    /\ ~EndsWith(url, <<"/">>)
    /\ \A e \in PageExtensions : ~EndsWith(url, e)

C21_UrlVariations ==
    variations # Null =>
        /\ \A i, j \in DOMAIN variations : i # j => variations[i] # variations[j]
        /\ variations[1] = url_arg
        /\ InList(variations, WwwToggled(url_arg))
        /\ \A k \in DOMAIN Suffixes :
              IF TakesSuffixes(url_arg)
              THEN /\ InList(variations, url_arg \o Suffixes[k])
                   /\ InList(variations, WwwToggled(url_arg) \o Suffixes[k])
              ELSE \A i, j \in DOMAIN variations :
                      variations[i] # variations[j] \o Suffixes[k]

\* ------------------------------------------------------------------ C22
\* C22: with pick "monthly" (resp. "yearly") apply_pick_filter returns exactly
\* one snapshot for each month (year) that occurs in the input, that snapshot
\* is the first of its month (year) in input order, and the snapshots returned
\* are in the order they have in the input.

\* the month "YYYY-MM" or the year "YYYY" of a snapshot
PeriodOf(s, pick) == SubSeq(s.date, 1, IF pick = "monthly" THEN 7 ELSE 4)

\* the position in the input of the first snapshot of a period
FirstOf(period, pick) ==
    Min({k \in DOMAIN pick_arg.snapshots : PeriodOf(pick_arg.snapshots[k], pick) = period})

C22_OnePerPeriod ==
    (picked.done /\ pick_arg.pick \in {"monthly", "yearly"}) =>
        LET p == pick_arg.pick
            input == pick_arg.snapshots
            periods == {PeriodOf(input[k], p) : k \in DOMAIN input}
        IN  /\ Len(picked.result) = Cardinality(periods)
            /\ \A period \in periods :
                  /\ Cardinality({i \in DOMAIN picked.result : PeriodOf(picked.result[i], p) = period}) = 1
                  /\ \E i \in DOMAIN picked.result : picked.result[i] = input[FirstOf(period, p)]
            /\ \A i, j \in DOMAIN picked.result :
                  i < j => FirstOf(PeriodOf(picked.result[i], p), p) < FirstOf(PeriodOf(picked.result[j], p), p)

\* A monthly pick over an input whose first and third snapshots are of one month,
\* with another month between them: the first and second are returned.
C22_Witness ==
    /\ picked.done
    /\ pick_arg.pick = "monthly"
    /\ Len(pick_arg.snapshots) = 3
    /\ PeriodOf(pick_arg.snapshots[1], "monthly") = PeriodOf(pick_arg.snapshots[3], "monthly")
    /\ pick_arg.snapshots[1] # pick_arg.snapshots[3]
    /\ PeriodOf(pick_arg.snapshots[1], "monthly") # PeriodOf(pick_arg.snapshots[2], "monthly")
    /\ picked.result = SubSeq(pick_arg.snapshots, 1, 2)

\* ------------------------------------------------------------------ C23
\* C23: for a non-empty input apply_pick_filter returns exactly one snapshot of
\* the input: the first with pick "closest_to_end", the last with
\* "closest_to_start", and with "closest_to_date" and a target date that is a
\* date, a snapshot that is as few days from the target date as any snapshot of
\* the input.

\* the number of days between two dates
DaysApart(a, b) ==
    IF Ordinal(strptime(a)) >= Ordinal(strptime(b))
    THEN Ordinal(strptime(a)) - Ordinal(strptime(b))
    ELSE Ordinal(strptime(b)) - Ordinal(strptime(a))

IsDate(s) == s # Null /\ strptime(s) # ValueError

C23_SinglePick ==
    (picked.done /\ pick_arg.snapshots # <<>>) =>
        LET input == pick_arg.snapshots
        IN  /\ pick_arg.pick = "closest_to_end" => picked.result = <<input[1]>>
            /\ pick_arg.pick = "closest_to_start" => picked.result = <<input[Len(input)]>>
            /\ (pick_arg.pick = "closest_to_date" /\ IsDate(pick_arg.target_date)) =>
                  /\ Len(picked.result) = 1
                  /\ \E k \in DOMAIN input : input[k] = picked.result[1]
                  /\ \A k \in DOMAIN input :
                        DaysApart(picked.result[1].date, pick_arg.target_date)
                            <= DaysApart(input[k].date, pick_arg.target_date)

\* The snapshot closest to the target date was picked from the middle of an
\* input whose first and last snapshots are further away.
C23_Witness ==
    /\ picked.done
    /\ pick_arg.pick = "closest_to_date"
    /\ IsDate(pick_arg.target_date)
    /\ Len(pick_arg.snapshots) = 3
    /\ picked.result = <<pick_arg.snapshots[2]>>
    /\ DaysApart(pick_arg.snapshots[1].date, pick_arg.target_date)
           > DaysApart(picked.result[1].date, pick_arg.target_date)
    /\ DaysApart(pick_arg.snapshots[3].date, pick_arg.target_date)
           > DaysApart(picked.result[1].date, pick_arg.target_date)

\* ------------------------------------------------------------------ C24
\* C24: in every reachable state the wake signal of a queued Waiter is set only
\* if the Waiter is the head of the queue, and at most one call is between
\* passing the head-of-queue check and leaving the queue (attempting admission,
\* in its backoff sleep, or about to be popped), and that call is the head.

\* positions between the head-of-queue check and the removal from the queue
PastCheck == {"try", "sleep", "pop"}

C24_SingleEligible ==
    /\ \A c \in Calls : (InQueue(c) /\ event[c]) => Head(queue) = c
    /\ Cardinality({c \in Calls : pc[c] \in PastCheck}) <= 1
    /\ \A c \in Calls : pc[c] \in PastCheck => at_front(queue, c)

\* Two Waiters are queued after a call has been admitted and has woken the
\* next one: the head is attempting admission with its signal set, the one
\* behind it waits with its signal clear.
C24_Witness ==
    /\ Len(queue) = 2
    /\ \E c \in Calls : pc[c] = "returned"
    /\ pc[queue[1]] = "try" /\ event[queue[1]]
    /\ pc[queue[2]] = "wait" /\ ~event[queue[2]]

\* ------------------------------------------------------------------ C25
\* C25: no admission is recorded for a call at a time when max_wait or more has
\* passed since the call began, and no call is blocked in its wait for the
\* head of the queue or in its backoff sleep at such a time.
C25_NoLateAdmission ==
    /\ \A k \in DOMAIN admitted :
          admitted[k][2] - start_time[admitted[k][1]] < max_wait(config)
    /\ \A c \in Calls :
          (pc[c] \in {"wait", "sleep"} /\ now < deadline[c]) =>
              now - start_time[c] < max_wait(config)

\* ------------------------------------------------------------------ C26
\* C26: a wait for the head of the queue and a backoff sleep each end no later
\* than max_wait after the call began (they last at most the time that remained
\* when they started), and no call is still blocked in either of them later
\* than that.
C26_WaitsCapped ==
    \A c \in Calls :
        pc[c] \in {"wait", "sleep"} =>
            /\ deadline[c] <= start_time[c] + max_wait(config)
            /\ now - start_time[c] <= max_wait(config)

\* A call is in a backoff sleep cut short to the time remaining, and the call
\* behind it is in a wait cut short to less than one polling interval.
C26_Witness ==
    \E c, d \in Calls :
        /\ pc[c] = "sleep" /\ deadline[c] = start_time[c] + max_wait(config)
        /\ pc[d] = "wait" /\ ~event[d] /\ deadline[d] = start_time[d] + max_wait(config)
        /\ deadline[d] - now < Poll
        /\ now < deadline[d]

\* ------------------------------------------------------------------ C27
\* C27: a thread reads or writes the sliding-window counters only while it
\* holds the counters lock (self._lock), and reads or writes the wait queue
\* (append, remove, peek at the head, wake the head, length) only while it holds
\* the queue lock (self._queue_lock), in acquire and in get_status alike.

\* positions whose step reads or writes the timestamp deques: the admission
\* attempt (_calculate_wait_time, _record_call) and the block of get_status
CountersAccess == {"in_try", "in_status"}

\* positions whose step reads or writes self._queue: the append, the peek at
\* the head, the popleft, the two wakes of the head, the removal, and the block
\* of get_status (len(self._queue))
QueueAccess == {"in_enqueue", "in_check", "in_pop", "in_notify", "in_remove",
                "in_renotify", "in_status"}

C27_LockedAccess ==
    \A t \in Calls :
        /\ lpc[t] \in CountersAccess => lock = t
        /\ lpc[t] \in QueueAccess => qlock = t

\* ------------------------------------------------------------------ C28
\* C28: the step that removes a failed Waiter from the queue removes that
\* Waiter wherever it stands in the queue and no other, and leaves the
\* remaining Waiters in the order they had; when the removed Waiter was not the
\* head, the head is the same Waiter after the step.
C28_RemovalFrame ==
    [][\A c \in Calls :
          Cleanup(c) =>
              /\ InQueue(c)
              /\ \A i \in DOMAIN queue' : queue'[i] # c
              /\ Len(queue') = Len(queue) - 1
              /\ \A d \in Calls \ {c} :
                    InQueue(d) <=> \E i \in DOMAIN queue' : queue'[i] = d
              /\ \A d, e \in Calls \ {c} :
                    (InQueue(d) /\ InQueue(e)) =>
                        (Pos(queue, d) < Pos(queue, e) <=> Pos(queue', d) < Pos(queue', e))
              /\ Head(queue) # c => Head(queue') = Head(queue)]_vars

\* A Waiter that timed out has been removed from between two Waiters that are
\* still queued.
C28_Witness ==
    \E c \in Calls :
        /\ pc[c] \in {"cleanup_notify", "raise", "timed_out"}
        /\ Len(queue) = 2
        /\ Pos(enq_order, queue[1]) < Pos(enq_order, c)
        /\ Pos(enq_order, c) < Pos(enq_order, queue[2])

\* ------------------------------------------------------------------ C29
\* C29: the limit an admission attempt of acquire(tool) applies to the tool's
\* window is the tool's own max_requests_per_second when the configuration
\* lists the tool with that field, and the global rate when the tool is not
\* listed or is listed without the field: the attempt is refused exactly when
\* the tool's window holds that many timestamps, or the global window holds
\* the global rate, and the oldest of them is less than one window old.

\* the limit the configuration gives a tool
ConfiguredLimit(n) ==
    IF /\ "tools" \in DOMAIN config
       /\ n \in DOMAIN config.tools
       /\ "max_requests_per_second" \in DOMAIN config.tools[n]
    THEN config.tools[n].max_requests_per_second
    ELSE config.max_requests_per_second

\* the cleaned window holds at least limit timestamps and its oldest is less
\* than one window old
Saturated(timestamps, limit) ==
    LET w == _clean_old_timestamps(timestamps, now)
    IN  Len(w) >= limit /\ Head(w) + Window > now

C29_ToolLimitApplied ==
    [][\A c \in Calls :
          TryAcquire(c) =>
              (admitted' = admitted
                   <=> \/ Saturated(tool_ts[tool[c]], ConfiguredLimit(tool[c]))
                       \/ Saturated(global_ts, config.max_requests_per_second))]_vars

\* The configuration lists "a" with an override and does not list "x": a call
\* for "x" has been admitted, and a call for "a" is in its backoff sleep behind
\* an admitted call for "a" although the global window has room.
C29_Witness ==
    /\ "a" \in DOMAIN config.tools
    /\ "max_requests_per_second" \in DOMAIN config.tools["a"]
    /\ "x" \notin DOMAIN config.tools
    /\ \E c \in Calls : pc[c] = "returned" /\ tool[c] = "x"
    /\ \E c \in Calls : pc[c] = "returned" /\ tool[c] = "a"
    /\ \E c \in Calls : pc[c] = "sleep" /\ tool[c] = "a"
    /\ Len(_clean_old_timestamps(global_ts, now)) < config.max_requests_per_second

\* ------------------------------------------------------------------ C30
\* C30: in every reachable state the timestamps of the global window and of
\* each tool's window are in non-decreasing order from front to back, and
\* pruning a window from the front leaves exactly its entries that are not
\* older than one window: no expired entry stays behind a fresh one.  (Violated
\* when the wall clock is set back between two admissions: the later admission
\* is recorded with the smaller timestamp behind the earlier one.)
NonDecreasing(timestamps) ==
    \A i, j \in DOMAIN timestamps : i < j => timestamps[i] <= timestamps[j]

\* the entries of a window that are not older than one window
Fresh_entries(timestamps) == SelectSeq(timestamps, LAMBDA x : ~(x < now - Window))

C30_WindowsOrdered ==
    /\ NonDecreasing(global_ts)
    /\ _clean_old_timestamps(global_ts, now) = Fresh_entries(global_ts)
    /\ \A n \in ToolNames :
          /\ NonDecreasing(tool_ts[n])
          /\ _clean_old_timestamps(tool_ts[n], now) = Fresh_entries(tool_ts[n])

\* ------------------------------------------------------------------ C31
\* C31: whenever an admitted call runs self._queue.popleft(), the head of the
\* queue is its own entry, so the entry removed is its own and every other
\* entry stays, whatever other threads enqueued or removed between its head
\* check and its popleft.
C31_PopsOwnEntry ==
    [][\A t \in Calls :
          PopBody(t) => /\ at_front(queue, t)
                        /\ queue' = without(queue, t)]_vars

\* A call has just removed the head of the queue while another call has timed
\* out and left the queue and a third is still queued.
C31_Witness ==
    \E t, u, v \in Calls :
        /\ lpc[t] = "q_notify"
        /\ lpc[u] = "raised"
        /\ InQueue(v)
        /\ ~InQueue(t)

\* ------------------------------------------------------------------ C32
\* C32: whenever a status call can run (self._lock is free), the
\* global_calls_last_second it reports is not greater than the global_limit it
\* reports, also at the instant at which an admission is recorded exactly one
\* window after the oldest timestamp still in the global window.
C32_StatusWithinLimit ==
    lock = None =>
        get_status.global_calls_last_second <= get_status.global_limit

\* ------------------------------------------------------------------ C33
\* C33: while a call is in its backoff sleep the windows are only pruned (no
\* call records a timestamp), and a backoff sleep that is not cut short by the
\* call's deadline ends at an instant at which the admission check finds
\* wait_time <= 0: the call needs no second backoff sleep.
FullSleep(c) ==
    /\ pc[c] = "sleep"
    /\ deadline[c] < start_time[c] + max_wait(config)

C33_OneBackoff ==
    /\ [](\A c \in Calls :
            FullSleep(c) =>
                can_proceed(_calculate_wait_time(config, global_ts, tool_ts[tool[c]],
                                                 tool[c], deadline[c])))
    /\ [][\A c \in Calls :
            pc[c] = "sleep" /\ at_front(queue, c) =>
                /\ admitted' = admitted
                /\ IsSuffix(global_ts', global_ts)
                /\ \A n \in ToolNames : IsSuffix(tool_ts'[n], tool_ts[n])]_vars

\* ------------------------------------------------------------------ C34
\* C34: a thread that waits on its event or sleeps for backoff holds neither
\* self._lock nor self._queue_lock, so no thread that requests a lock (a status
\* call, a call that joins the queue, a call that removes its entry) is kept
\* out by a waiting or sleeping thread.
Pausing == {"loop", "backoff"}

C34_PauseHoldsNoLock ==
    /\ \A t \in Calls : lpc[t] \in Pausing => lock # t /\ qlock # t
    /\ \A u \in Calls :
          /\ (lpc[u] \in LReq /\ lock # None) => lpc[lock] \notin Pausing
          /\ (lpc[u] \in QReq /\ qlock # None) => lpc[qlock] \notin Pausing

\* One call sleeps for backoff while a status call is inside its block and
\* another call is inside the handler's block, removing its entry.
C34_Witness ==
    \E t, u, v \in Calls :
        /\ lpc[t] = "backoff"
        /\ lpc[u] = "in_status" /\ lock = u
        /\ lpc[v] = "in_remove" /\ qlock = v
====
